---- MODULE Spec2Model ----
(***************************************************************************)
(* Model of the ONS acquisition-and-normalization engine:                  *)
(*   src/ons_integration/client.py  (ONSClient)                            *)
(*   src/energy_fetcher.py          (EnergyDataFetcher)                    *)
(*                                                                         *)
(* Python strings are sequences of one-character strings, so that lower(), *)
(* upper(), strip(), endswith(), "in" and the lexicographic comparison are *)
(* computed and not assumed.  Python floats are exact rationals num/den    *)
(* (den > 0) plus the special values inf, -inf and nan.                    *)
(***************************************************************************)
EXTENDS Integers, Sequences, FiniteSets, TLC

(***************************************************************************)
(* Characters and strings                                                  *)
(***************************************************************************)

\* The characters of the model, in code point order (only the order is used).
CodeTable ==
  << " ", ",", "-", ".",
     "0", "1", "2", "3", "4", "5", "6", "7", "8", "9", ":",
     "A", "B", "C", "D", "E", "F", "G", "H", "I", "J", "K", "L", "M",
     "N", "O", "P", "Q", "R", "S", "T", "U", "V", "W", "X", "Y", "Z",
     "_",
     "a", "b", "c", "d", "e", "f", "g", "h", "i", "j", "k", "l", "m",
     "n", "o", "p", "q", "r", "s", "t", "u", "v", "w", "x", "y", "z" >>

CharSet == {CodeTable[i] : i \in 1..Len(CodeTable)}
OrdTable == [c \in CharSet |-> CHOOSE i \in 1..Len(CodeTable) : CodeTable[i] = c]
Ord(c) == OrdTable[c]

FirstUpper == OrdTable["A"]
FirstLower == OrdTable["a"]
UpperSet == {c \in CharSet : OrdTable[c] >= FirstUpper /\ OrdTable[c] < FirstUpper + 26}
LowerSet == {c \in CharSet : OrdTable[c] >= FirstLower /\ OrdTable[c] < FirstLower + 26}
DigitSet == {"0", "1", "2", "3", "4", "5", "6", "7", "8", "9"}

IsDigit(c) == c \in DigitSet
IsSpace(c) == c = " "

LowerTable ==
  [c \in CharSet |-> IF c \in UpperSet THEN CodeTable[OrdTable[c] - FirstUpper + FirstLower]
                     ELSE c]
UpperTable ==
  [c \in CharSet |-> IF c \in LowerSet THEN CodeTable[OrdTable[c] - FirstLower + FirstUpper]
                     ELSE c]
LowerChar(c) == LowerTable[c]
UpperChar(c) == UpperTable[c]

\* str.lower(), str.upper()
lower(s) == [i \in 1..Len(s) |-> LowerChar(s[i])]
upper(s) == [i \in 1..Len(s) |-> UpperChar(s[i])]

\* str.strip(): leading and trailing whitespace removed
RECURSIVE lstrip(_)
lstrip(s) == IF s # << >> /\ IsSpace(Head(s)) THEN lstrip(Tail(s)) ELSE s
RECURSIVE rstrip(_)
rstrip(s) ==
  IF s # << >> /\ IsSpace(s[Len(s)]) THEN rstrip(SubSeq(s, 1, Len(s) - 1)) ELSE s
strip(s) == rstrip(lstrip(s))

\* str.endswith(suffix)
endswith(s, suffix) ==
  /\ Len(s) >= Len(suffix)
  /\ SubSeq(s, Len(s) - Len(suffix) + 1, Len(s)) = suffix

\* "sub in s" on strings
contains(s, sub) ==
  \E i \in 0..(Len(s) - Len(sub)) : SubSeq(s, i + 1, i + Len(sub)) = sub

\* a < b and a >= b on strings: lexicographic by code point
RECURSIVE StrLess(_, _)
StrLess(a, b) ==
  IF b = << >> THEN FALSE
  ELSE IF a = << >> THEN TRUE
  ELSE IF Head(a) = Head(b) THEN StrLess(Tail(a), Tail(b))
  ELSE Ord(Head(a)) < Ord(Head(b))
StrGE(a, b) == ~StrLess(a, b)

(***************************************************************************)
(* Values: JSON values and CSV cells                                       *)
(***************************************************************************)

None == [t |-> "null"]
Str(s) == [t |-> "str", s |-> s]
NumV(f) == [t |-> "num", f |-> f]
\* Python truthiness of a cell that is a string or None
Truthy(v) == v.t = "str" /\ v.s # << >>

(***************************************************************************)
(* Floats                                                                  *)
(***************************************************************************)

RECURSIVE GCD(_, _)
GCD(a, b) == IF b = 0 THEN a ELSE GCD(b, a % b)
Abs(n) == IF n < 0 THEN -n ELSE n

\* the rational n / d (d > 0) in lowest terms
Reduced(n, d, g) == [k |-> "fin", num |-> n \div g, den |-> d \div g]
Fin(n, d) == Reduced(n, d, GCD(Abs(n), d))
PosInf == [k |-> "inf", num |-> 1, den |-> 1]
NegInf == [k |-> "ninf", num |-> -1, den |-> 1]
NaN == [k |-> "nan", num |-> 0, den |-> 1]
Fail == [k |-> "fail", num |-> 0, den |-> 1]

IsFin(x) == x.k = "fin"

\* x > c for an integer constant c
FGtInt(x, c) ==
  CASE x.k = "fin" -> x.num > c * x.den
    [] x.k = "inf" -> TRUE
    [] OTHER -> FALSE
\* x < c for an integer constant c
FLtInt(x, c) ==
  CASE x.k = "fin" -> x.num < c * x.den
    [] x.k = "ninf" -> TRUE
    [] OTHER -> FALSE

FNeg(x) ==
  CASE x.k = "fin" -> Fin(-x.num, x.den)
    [] x.k = "inf" -> NegInf
    [] x.k = "ninf" -> PosInf
    [] OTHER -> x

Pow10(n) == IF n = 0 THEN 1 ELSE IF n = 1 THEN 10 ELSE IF n = 2 THEN 100 ELSE 1000

DigitVal(c) == OrdTable[c] - OrdTable["0"]
RECURSIVE DigitsVal(_)
DigitsVal(s) ==
  IF s = << >> THEN 0 ELSE 10 * DigitsVal(SubSeq(s, 1, Len(s) - 1)) + DigitVal(s[Len(s)])
AllDigits(s) == \A i \in 1..Len(s) : IsDigit(s[i])

\* digits[.digits] split at the dot at position p
ParseDecimal(ip, fp) ==
  IF AllDigits(ip) /\ AllDigits(fp) /\ Len(ip) + Len(fp) > 0 /\ Len(fp) <= 3
    THEN Fin(DigitsVal(ip) * Pow10(Len(fp)) + DigitsVal(fp), Pow10(Len(fp)))
    ELSE Fail

ParseDotted(s, dots) ==
  IF dots = {}
    THEN ParseDecimal(s, << >>)
  ELSE IF Cardinality(dots) > 1 THEN Fail
  ELSE ParseDecimal(SubSeq(s, 1, (CHOOSE i \in dots : TRUE) - 1),
                    SubSeq(s, (CHOOSE i \in dots : TRUE) + 1, Len(s)))

ParseWord(s, l) ==
  IF l = <<"i", "n", "f">> \/ l = <<"i", "n", "f", "i", "n", "i", "t", "y">> THEN PosInf
  ELSE IF l = <<"n", "a", "n">> THEN NaN
  ELSE ParseDotted(s, {i \in 1..Len(s) : s[i] = "."})

\* the unsigned part of a float literal: digits, digits.digits, digits., .digits,
\* inf, infinity, nan (exponent forms are not in the model's inputs)
ParseUnsigned(s) == ParseWord(s, lower(s))

NegOrFail(r) == IF r.k = "fail" THEN Fail ELSE FNeg(r)

ParseSigned(t) ==
  IF t = << >> THEN Fail
  ELSE IF Head(t) = "-" THEN NegOrFail(ParseUnsigned(Tail(t)))
  ELSE ParseUnsigned(t)

\* float(str): whitespace stripped, optional sign; Fail stands for ValueError
ParseFloat(s) == ParseSigned(strip(s))

\* str.replace(",", ".")
replace_comma(s) == [i \in 1..Len(s) |-> IF s[i] = "," THEN "." ELSE s[i]]

\* x + y on floats
FAdd(x, y) ==
  CASE x.k = "fin" /\ y.k = "fin" -> Fin(x.num * y.den + y.num * x.den, x.den * y.den)
    [] x.k = "nan" \/ y.k = "nan" -> NaN
    [] x.k = "fin" -> y
    [] y.k = "fin" -> x
    [] x.k = y.k -> x
    [] OTHER -> NaN

\* (x / y) * 100 for y > 0 (every call site guards y > 0)
FDivTimes100(x, y) ==
  CASE x.k = "nan" \/ y.k = "nan" -> NaN
    [] x.k = "fin" /\ y.k = "fin" -> Fin(x.num * y.den * 100, x.den * y.num)
    [] x.k = "fin" -> Fin(0, 1)
    [] y.k = "fin" -> x
    [] OTHER -> NaN

\* n / d rounded to the nearest integer, ties to the even one (d > 0)
RoundHalfEven(n, d) ==
  IF 2 * (n % d) > d THEN (n \div d) + 1
  ELSE IF 2 * (n % d) < d THEN n \div d
  ELSE IF (n \div d) % 2 = 0 THEN n \div d ELSE (n \div d) + 1

\* round(x, 1): inf and nan are returned as they are
round1(x) == IF x.k = "fin" THEN Fin(RoundHalfEven(x.num * 10, x.den), 10) ELSE x

\* n / d truncated toward zero (d > 0)
Trunc(n, d) == IF n >= 0 THEN n \div d ELSE -((-n) \div d)

\* int(x): OverflowError for inf, ValueError for nan
IntRaises(x) == x.k # "fin"
int(x) == Trunc(x.num, x.den)
\* int(x * 1.03)
int103(x) == Trunc(x.num * 103, x.den * 100)

(***************************************************************************)
(* Regions                                                                 *)
(***************************************************************************)

\* the keys of region_mappings, in the dict's order
REGIONS == <<"southeast", "south", "northeast", "north">>
RegionSet == {REGIONS[i] : i \in 1..Len(REGIONS)}

\* the alias lists with the one-letter alias of the south left out
region_mappings_NoShortSouth(region) ==
  CASE region = "southeast" ->
         << <<"s", "u", "d", "e", "s", "t", "e">>, <<"s", "e", "_", "c", "o">>,
            <<"s", "e", "c", "o">>, <<"s", "e">> >>
    [] region = "south" -> << <<"s", "u", "l">> >>
    [] region = "northeast" ->
         << <<"n", "o", "r", "d", "e", "s", "t", "e">>, <<"n", "e">> >>
    [] region = "north" -> << <<"n", "o", "r", "t", "e">>, <<"n">> >>

\* region_mappings of _extract_reservoir_values and _extract_consumption_values
region_mappings(region) ==
  CASE region = "southeast" ->
         << <<"s", "u", "d", "e", "s", "t", "e">>, <<"s", "e", "_", "c", "o">>,
            <<"s", "e", "c", "o">>, <<"s", "e">> >>
    [] region = "south" -> << <<"s", "u", "l">>, <<"s">> >>
    [] region = "northeast" ->
         << <<"n", "o", "r", "d", "e", "s", "t", "e">>, <<"n", "e">> >>
    [] region = "north" -> << <<"n", "o", "r", "t", "e">>, <<"n">> >>

\* capacities (MWmed)
capacities(region) ==
  CASE region = "southeast" -> 208355
    [] region = "south" -> 19768
    [] region = "northeast" -> 56468
    [] region = "north" -> 13489
    [] OTHER -> 0

(***************************************************************************)
(* Catalog path: one sampled record, an ordered mapping of field to value  *)
(***************************************************************************)

Obj(items) == [t |-> "obj", items |-> items]
Keys(rec) == [i \in 1..Len(rec.items) |-> rec.items[i][1]]
HasKey(rec, key) == \E i \in 1..Len(rec.items) : rec.items[i][1] = key
\* dict.get(key, default)
Get(rec, key, default) ==
  IF HasKey(rec, key)
    THEN rec.items[CHOOSE i \in 1..Len(rec.items) : rec.items[i][1] = key][2]
    ELSE default

\* field_lower == region_name or field_lower.endswith("_" + region_name)
FieldMatches(field_lower, region_name) ==
  field_lower = region_name \/ endswith(field_lower, <<"_">> \o region_name)

NoMatch == [found |-> FALSE, name |-> << >>, priority |-> -1]

\* the comparison written "<=": a later column of the same alias replaces the first
BetterPriority_LastWins(priority, best_match_priority) ==
  priority <= best_match_priority \/ best_match_priority = -1

\* "if priority < best_match_priority or best_match_priority == -1"
BetterPriority(priority, best_match_priority) ==
  priority < best_match_priority \/ best_match_priority = -1

\* the inner loop over enumerate(region_names) stops at the first alias that
\* matches and improves on the best so far
TakeHit(best, field_name, hits) ==
  IF hits = {} THEN best
  ELSE [found |-> TRUE, name |-> field_name,
        priority |-> CHOOSE p \in hits : \A q \in hits : p <= q]

FieldHits(best, field_lower, region_names) ==
  {p \in 0..(Len(region_names) - 1) :
     /\ FieldMatches(field_lower, region_names[p + 1])
     /\ BetterPriority(p, best.priority)}

\* one round of "for field_name in latest_record.keys()"
MatchField(best, field_name, region_names) ==
  TakeHit(best, field_name, FieldHits(best, strip(lower(field_name)), region_names))

RECURSIVE MatchFields(_, _, _)
MatchFields(best, fields, region_names) ==
  IF fields = << >> THEN best
  ELSE MatchFields(MatchField(best, Head(fields), region_names), Tail(fields), region_names)

\* "if best_match": an empty field name is falsy
TruthyMatch(b) == IF b.found /\ b.name # << >> THEN b ELSE NoMatch

\* best_match of a region in a record
best_match(rec, region) ==
  TruthyMatch(MatchFields(NoMatch, Keys(rec), region_mappings(region)))

\* float(value) of a JSON value; Fail stands for ValueError/TypeError
ToFloat(v) ==
  CASE v.t = "num" -> v.f
    [] v.t = "str" -> ParseFloat(v.s)
    [] OTHER -> Fail

\* the value under the matched column: "if value is not None" and float(value);
\* Fail when the region gets no entry
MatchedValue(rec, b) == IF b.found THEN ToFloat(Get(rec, b.name, None)) ELSE Fail

\* per region, the parsed value of its column, or Fail
ExtractedValues(rec) == [r \in RegionSet |-> MatchedValue(rec, best_match(rec, r))]

Parsed(values) == {r \in DOMAIN values : values[r].k # "fail"}

\* "normal" if level_percent > 50 else "attention"
status_of(level) == IF FGtInt(level, 50) THEN "normal" ELSE "attention"

NoneResult == [t |-> "none"]
Raised == [t |-> "raise"]

\* the timestamp both extractors pass through
RecordTimestamp(rec) == Get(rec, <<"d", "a", "t", "a">>,
                            Get(rec, <<"t", "i", "m", "e", "s", "t", "a", "m", "p">>, Str(<< >>)))

ReservoirEntries(values, timestamp) ==
  IF Parsed(values) = {} THEN NoneResult
  ELSE [t |-> "reservoir",
        regions |-> [r \in Parsed(values) |->
                       [level_percent |-> values[r],
                        capacity_mwmed |-> capacities(r),
                        timestamp |-> timestamp,
                        status |-> status_of(values[r])]]]

\* records[0] if records else {}
latest_record(records) == IF records = << >> THEN Obj(<< >>) ELSE records[1]

ReservoirOfRecord(rec) ==
  IF rec.t # "obj" THEN Raised
  ELSE ReservoirEntries(ExtractedValues(rec), RecordTimestamp(rec))

\* _extract_reservoir_values: records[0] decides; a record that is no mapping
\* raises AttributeError
_extract_reservoir_values(records) == ReservoirOfRecord(latest_record(records))

RECURSIVE FSum(_, _)
FSum(f, S) ==
  IF S = {} THEN Fin(0, 1)
  ELSE FAdd(f[CHOOSE y \in S : TRUE], FSum(f, S \ {CHOOSE y \in S : TRUE}))

\* the share left unrounded
share_percent_Unrounded(load_mw, total_load) == FDivTimes100(load_mw, total_load)
\* round((load_mw / total_load) * 100, 1)
share_percent(load_mw, total_load) == round1(FDivTimes100(load_mw, total_load))
\* the total rounded to the nearest integer
current_load_Rounded(total_load) == RoundHalfEven(total_load.num, total_load.den)
\* int(total_load) and int(total_load * 1.03)
current_load(total_load) == int(total_load)
forecast_load(total_load) == int103(total_load)

\* the percentage step shared by both consumption paths
\* (client.py 657-667 and 943-952)
ConsumptionTotals(loads, total_load, timestamp) ==
  IF DOMAIN loads = {} THEN NoneResult
  ELSE IF ~FGtInt(total_load, 0)
    THEN [t |-> "consumption", current_load_mw |-> 0, forecast_load_mw |-> 0,
          timestamp |-> timestamp,
          regions |-> [r \in DOMAIN loads |-> [load_mw |-> loads[r], percent |-> Fin(0, 1)]]]
  ELSE IF IntRaises(total_load) THEN Raised
  ELSE [t |-> "consumption", current_load_mw |-> current_load(total_load),
        forecast_load_mw |-> forecast_load(total_load),
        timestamp |-> timestamp,
        regions |-> [r \in DOMAIN loads |->
                       [load_mw |-> loads[r],
                        percent |-> share_percent(loads[r], total_load)]]]

ConsumptionResult(loads, timestamp) ==
  ConsumptionTotals(loads, FSum(loads, DOMAIN loads), timestamp)

OnlyParsed(values) == [r \in Parsed(values) |-> values[r]]

ConsumptionOfRecord(rec) ==
  IF rec.t # "obj" THEN Raised
  ELSE ConsumptionResult(OnlyParsed(ExtractedValues(rec)), RecordTimestamp(rec))

\* _extract_consumption_values
_extract_consumption_values(records) == ConsumptionOfRecord(latest_record(records))

(***************************************************************************)
(* Bulk path: rows of a semicolon-delimited file, each a mapping of column *)
(* name to cell (a string, or None for a cell missing from a short row)    *)
(***************************************************************************)

\* record.get(col)
RowGet(record, col) == IF col \in DOMAIN record THEN record[col] ELSE None

FirstOf(S) == CHOOSE i \in S : \A j \in S : i <= j
LastOf(S) == CHOOSE i \in S : \A j \in S : j <= i

\* a or b or "" over cells, as a string
OrChain(cells) ==
  IF \A i \in 1..Len(cells) : ~Truthy(cells[i]) THEN << >>
  ELSE cells[FirstOf({i \in 1..Len(cells) : Truthy(cells[i])})].s

\* the grouping giving every identifier it does not know a bucket of its own
subsystem_mapping_OwnBucket(id) ==
  CASE id \in {<<"S", "E">>, <<"S", "U", "D", "E", "S", "T", "E">>} -> "southeast"
    [] id \in {<<"S">>, <<"S", "U", "L">>} -> "south"
    [] id \in {<<"N", "E">>, <<"N", "O", "R", "D", "E", "S", "T", "E">>} -> "northeast"
    [] id \in {<<"N">>, <<"N", "O", "R", "T", "E">>} -> "north"
    [] id = << >> -> ""
    [] OTHER -> "unknown"

\* subsystem_mapping.get(subsystem_id); "" stands for None
subsystem_mapping(id) ==
  CASE id = <<"S", "E">> -> "southeast"
    [] id = <<"S", "U", "D", "E", "S", "T", "E">> -> "southeast"
    [] id = <<"S">> -> "south"
    [] id = <<"S", "U", "L">> -> "south"
    [] id = <<"N", "E">> -> "northeast"
    [] id = <<"N", "O", "R", "D", "E", "S", "T", "E">> -> "northeast"
    [] id = <<"N">> -> "north"
    [] id = <<"N", "O", "R", "T", "E">> -> "north"
    [] OTHER -> ""

\* the name a row gives its subsystem, before upper() and strip()
subsystem_name(record) ==
  OrChain(<<RowGet(record, "id_subsistema"), RowGet(record, "nom_subsistema")>>)

\* the subsystem identifier of a row
subsystem_id(record) == strip(upper(subsystem_name(record)))

region_key(record) == subsystem_mapping(subsystem_id(record))

\* parse_date_str
parse_date_str(date_str) == IF date_str = << >> THEN << >> ELSE strip(date_str)

\* the date of a row, as _parse_ear_records and _parse_carga_records read it
ear_date(record) ==
  parse_date_str(OrChain(<<RowGet(record, "din_instante"),
                           RowGet(record, "dat_referencia"),
                           RowGet(record, "data")>>))
carga_date(record) ==
  parse_date_str(OrChain(<<RowGet(record, "din_instante"), RowGet(record, "data")>>))
row_date(record, is_ear) == IF is_ear THEN ear_date(record) ELSE carga_date(record)

\* the comparison written ">": the first row of a date is kept
KeepsLatest_Strict(date_str, current_date) == StrLess(current_date, date_str)

\* "if date_str >= current_date": the row replaces the one kept so far
KeepsLatest(date_str, current_date) == StrGE(date_str, current_date)

EmptyLatest == [order |-> << >>, date |-> [r \in {} |-> << >>], record |-> [r \in {} |-> None]]

\* latest_by_region.get(region_key, {}).get("date", "")
current_date(latest, rk) == IF rk \in DOMAIN latest.date THEN latest.date[rk] ELSE << >>

\* latest_by_region[region_key] = {"date": date_str, "record": record}
PutLatest(latest, rk, date_str, record) ==
  [order |-> IF rk \in DOMAIN latest.date THEN latest.order ELSE Append(latest.order, rk),
   date |-> [r \in DOMAIN latest.date \cup {rk} |-> IF r = rk THEN date_str ELSE latest.date[r]],
   record |-> [r \in DOMAIN latest.record \cup {rk} |->
                 IF r = rk THEN record ELSE latest.record[r]]]

ConsiderRow(latest, rk, date_str, record) ==
  IF rk = "" THEN latest
  ELSE IF KeepsLatest(date_str, current_date(latest, rk))
    THEN PutLatest(latest, rk, date_str, record)
  ELSE latest

\* one round of "for record in records" (is_ear picks the date columns)
LatestStep(latest, record, is_ear) ==
  ConsiderRow(latest, region_key(record), row_date(record, is_ear), record)

RECURSIVE latest_by_region(_, _, _)
latest_by_region(latest, records, is_ear) ==
  IF records = << >> THEN latest
  ELSE latest_by_region(LatestStep(latest, Head(records), is_ear), Tail(records), is_ear)

\* float(str(record[col]).replace(",", ".")) under "col in record and record[col]"
CellFloat(record, col) ==
  IF col \in DOMAIN record /\ Truthy(record[col])
    THEN ParseFloat(replace_comma(record[col].s))
    ELSE Fail

FirstNotFail(vals) ==
  IF \A i \in 1..Len(vals) : vals[i].k = "fail" THEN Fail
  ELSE vals[FirstOf({i \in 1..Len(vals) : vals[i].k # "fail"})]

\* "for col in [...]": the first column whose cell parses; Fail stands for None
FirstParsed(record, cols) ==
  FirstNotFail([i \in 1..Len(cols) |-> CellFloat(record, cols[i])])

\* ear_percent without the "ear_max > 0" test: the verified energy stands in
\* for the level when it cannot be divided
DerivePercent_NoMaxCheck(direct, ear_verif, ear_max) ==
  IF direct.k # "fail" THEN direct
  ELSE IF ear_verif.k # "fail" /\ ear_max.k # "fail" /\ FGtInt(ear_max, 0)
    THEN FDivTimes100(ear_verif, ear_max)
  ELSE ear_verif

\* ear_percent from the percentage column, else (ear_verif / ear_max) * 100
\* when both parse and ear_max > 0; Fail stands for None
DerivePercent(direct, ear_verif, ear_max) ==
  IF direct.k # "fail" THEN direct
  ELSE IF ear_verif.k # "fail" /\ ear_max.k # "fail" /\ FGtInt(ear_max, 0)
    THEN FDivTimes100(ear_verif, ear_max)
  ELSE Fail

\* ear_percent of a row, before rounding
ear_percent(record) ==
  DerivePercent(
    FirstParsed(record, <<"val_earverif_percentual", "ear_verif_percentual",
                          "val_ear_percentual">>),
    FirstParsed(record, <<"val_earverif_mwmes", "ear_verif_subsistema">>),
    FirstParsed(record, <<"val_eararmazenavel_mwmes", "ear_max_subsistema">>))

\* "level_percent": round(ear_percent, 1)
ear_level(ear_pct) == round1(ear_pct)
\* "status": "normal" if ear_percent > 50 else "attention"
ear_status(ear_pct) == status_of(ear_pct)

EarEntries(latest, pct) ==
  IF Parsed(pct) = {} THEN NoneResult
  ELSE [t |-> "reservoir",
        regions |-> [r \in Parsed(pct) |->
                       [level_percent |-> ear_level(pct[r]),
                        capacity_mwmed |-> capacities(r),
                        timestamp |-> Str(latest.date[r]),
                        status |-> ear_status(pct[r])]]]

EarOfLatest(latest) ==
  EarEntries(latest, [r \in DOMAIN latest.record |-> ear_percent(latest.record[r])])

\* _parse_ear_records
_parse_ear_records(records) ==
  IF records = << >> THEN NoneResult
  ELSE EarOfLatest(latest_by_region(EmptyLatest, records, TRUE))

carga_load(record) == FirstParsed(record, <<"val_cargaenergiamwmed", "val_carga", "carga">>)

\* result["timestamp"]: the date of the last region, in the order of
\* latest_by_region, that has a load
carga_timestamp(latest, regs) ==
  IF \A i \in 1..Len(latest.order) : latest.order[i] \notin regs THEN << >>
  ELSE latest.date[latest.order[LastOf({i \in 1..Len(latest.order) :
                                          latest.order[i] \in regs})]]

CargaEntries(latest, loads) ==
  ConsumptionResult(OnlyParsed(loads), Str(carga_timestamp(latest, Parsed(loads))))

CargaOfLatest(latest) ==
  CargaEntries(latest, [r \in DOMAIN latest.record |-> carga_load(latest.record[r])])

\* _parse_carga_records
_parse_carga_records(records) ==
  IF records = << >> THEN NoneResult
  ELSE CargaOfLatest(latest_by_region(EmptyLatest, records, FALSE))

(***************************************************************************)
(* Transport: the bulk object store and the catalog endpoint               *)
(***************************************************************************)

List(items) == [t |-> "list", items |-> items]
\* os.environ.get("ONS_USE_FIXTURES", "").lower() == "true"; an unset
\* variable is the empty string
EnvOn(environ) == lower(environ) = <<"t", "r", "u", "e">>

\* the constructor letting the environment override its parameter
__init___EnvFirst(use_fixtures_arg, environ) ==
  IF EnvOn(environ) THEN TRUE ELSE use_fixtures_arg = "true"

\* ONSClient.__init__: self.use_fixtures from the parameter ("unset" stands
\* for None) and from the environment
__init__(use_fixtures_arg, environ) ==
  IF use_fixtures_arg # "unset" THEN use_fixtures_arg = "true" ELSE EnvOn(environ)

\* Python truthiness of a list or None
NonEmptyList(v) == v.t = "list" /\ v.items # << >>

\* _load_csv_fixture: the rows of the fixture file, None when the file is
\* missing or cannot be read
_load_csv_fixture(fixture) == IF fixture.k = "rows" THEN List(fixture.rows) ELSE None

\* the network branch with the second except clause missing: a body that
\* cannot be decoded or parsed escapes
CsvFromNetwork_DecodeEscapes(reply) ==
  IF reply.k = "decode_error" THEN Raised
  ELSE IF reply.k = "ok" /\ reply.rows # << >> THEN List(reply.rows) ELSE None

\* the network branch of download_csv_data: every exception is caught
\* (client.py 210-226); a body with no data rows gives None
CsvFromNetwork(reply) ==
  IF reply.k = "ok" /\ reply.rows # << >> THEN List(reply.rows) ELSE None

\* "if self.use_fixtures: ... if fixture_data is not None: return fixture_data"
FixtureOrNetwork(use_fx, fixture_data, reply) ==
  IF use_fx /\ fixture_data.t # "null"
    THEN [result |-> fixture_data, net |-> 0]
    ELSE [result |-> CsvFromNetwork(reply), net |-> 1]

\* download_csv_data: result and number of network requests issued
download_csv_data(use_fx, fixture, reply) ==
  FixtureOrNetwork(use_fx, _load_csv_fixture(fixture), reply)

\* _make_request: the JSON body, or an exception ([k |-> "raise"]).  In
\* fixture mode no request is made and a missing fixture raises.
RaisedBody == [k |-> "raise", success |-> FALSE, payload |-> None]
_make_request(use_fx, fixture, reply) ==
  IF use_fx
    THEN [body |-> IF fixture.k = "json" THEN fixture ELSE RaisedBody, net |-> 0]
    ELSE [body |-> IF reply.k = "json" THEN reply ELSE RaisedBody, net |-> 1]

\* the envelope read without a try around the request
ResultOr_Unguarded(r, default) ==
  [result |-> IF r.body.k = "raise" THEN Raised
              ELSE IF r.body.success THEN r.body.payload ELSE default,
   net |-> r.net]

\* "if result.get('success'): return result.get('result') ... return default",
\* "except Exception: return default"
ResultOr(r, default) ==
  [result |-> IF r.body.k = "json" /\ r.body.success THEN r.body.payload ELSE default,
   net |-> r.net]

\* search_datasets: result.get("result", {}).get("results", []) for success,
\* [] otherwise and on any exception; a null "results" is returned as None
search_datasets(use_fx, fixture, reply) ==
  ResultOr(_make_request(use_fx, fixture, reply), List(<< >>))

\* get_dataset_info: the dataset detail for success, None otherwise
get_dataset_info(use_fx, fixture, reply) ==
  ResultOr(_make_request(use_fx, fixture, reply), None)

\* get_dataset_resource_data: the records for success, None otherwise
get_dataset_resource_data(use_fx, fixture, reply) ==
  ResultOr(_make_request(use_fx, fixture, reply), None)

(***************************************************************************)
(* Catalog parse: parse_reservoir_data / parse_consumption_data            *)
(***************************************************************************)

ReservoirKeywords ==
  { <<"r", "e", "s", "e", "r", "v", "a", "t", "o", "r", "i", "o">>,
    <<"e", "a", "r">>,
    <<"a", "r", "m", "a", "z", "e", "n", "a", "m", "e", "n", "t", "o">> }
ConsumptionKeywords ==
  { <<"c", "a", "r", "g", "a">>, <<"d", "e", "m", "a", "n", "d", "a">>,
    <<"c", "o", "n", "s", "u", "m", "o">>, <<"l", "o", "a", "d">> }
Keywords(m) == IF m = "reservoir" THEN ReservoirKeywords ELSE ConsumptionKeywords

\* resource_format in ["CSV", "JSON"] and any(keyword in resource_name ...)
NameQualifies(resource_name, resource_format, m) ==
  /\ resource_format \in {<<"C", "S", "V">>, <<"J", "S", "O", "N">>}
  /\ \E keyword \in Keywords(m) : contains(resource_name, keyword)

ResourceQualifies(resource, m) ==
  NameQualifies(lower(resource.name.s), upper(resource.format.s), m)

\* resource.get("name", "").lower() / resource.get("format", "").upper() raise
\* AttributeError for a null name or format; so does .get on what is no mapping
ResourceRaises(resource) ==
  resource.t # "obj" \/ resource.name.t # "str" \/ resource.format.t # "str"

Extract(m, recs) ==
  IF m = "reservoir" THEN _extract_reservoir_values(recs)
  ELSE _extract_consumption_values(recs)

\* the resources of all datasets in scan order; a dataset that is no mapping
\* is kept in place and raises when the scan reaches it
RECURSIVE Flatten(_)
Flatten(dsets) ==
  IF dsets = << >> THEN << >>
  ELSE (IF Head(dsets).t = "obj" THEN Head(dsets).resources ELSE <<Head(dsets)>>)
       \o Flatten(Tail(dsets))

\* the index of the resource that ends the scan: the first one that raises or
\* that qualifies, has an id and returns at least one record; 0 when none does
Sampled(resource, m, use_fx, fixture) ==
  /\ ~ResourceRaises(resource)
  /\ ResourceQualifies(resource, m)
  /\ Truthy(resource.id)
Decides(resource, m, use_fx, fixture) ==
  \/ ResourceRaises(resource)
  \/ /\ Sampled(resource, m, use_fx, fixture)
     /\ NonEmptyList(get_dataset_resource_data(use_fx, fixture, resource.store).result)

ScanEnd(resources, stops) == IF stops = {} THEN 0 ELSE FirstOf(stops)

\* requests issued up to the deciding resource: one per sampled resource
ScanNet(resources, last, m, use_fx, fixture) ==
  IF use_fx THEN 0
  ELSE Cardinality({i \in 1..last : Sampled(resources[i], m, use_fx, fixture)})

ScanResult(resources, end, m, use_fx, fixture) ==
  IF end = 0 THEN [result |-> NoneResult,
                   net |-> ScanNet(resources, Len(resources), m, use_fx, fixture)]
  ELSE IF ResourceRaises(resources[end])
    THEN [result |-> Raised, net |-> ScanNet(resources, end - 1, m, use_fx, fixture)]
  ELSE [result |-> Extract(m, get_dataset_resource_data(use_fx, fixture,
                                                        resources[end].store).result.items),
        net |-> ScanNet(resources, end, m, use_fx, fixture)]

ScanResources(resources, m, use_fx, fixture) ==
  ScanResult(resources,
             ScanEnd(resources, {i \in 1..Len(resources) :
                                   Decides(resources[i], m, use_fx, fixture)}),
             m, use_fx, fixture)

\* parse_reservoir_data / parse_consumption_data
parse_data(m, dsets, use_fx, fixture) ==
  IF dsets = << >> THEN [result |-> NoneResult, net |-> 0]
  ELSE ScanResources(Flatten(dsets), m, use_fx, fixture)

(***************************************************************************)
(* The upstream provider: what the object store and the catalog may answer *)
(***************************************************************************)

S_SE == <<"S", "E">>
S_S == <<"S">>
S_NE == <<"N", "E">>
S_N == <<"N">>
S_SE_CO == <<"S", "E", "_", "C", "O">>
D_10 == <<"1", "0">>
D_2 == <<"2">>
V_65c4 == <<"6", "5", ",", "4">>
V_58d2 == <<"5", "8", ".", "2">>
V_42d8 == <<"4", "2", ".", "8">>
V_71d3 == <<"7", "1", ".", "3">>
V_65d4 == <<"6", "5", ".", "4">>
V_50d04 == <<"5", "0", ".", "0", "4">>
V_inf == <<"i", "n", "f">>
V_abc == <<"a", "b", "c">>

\* a row of the EAR / load file: both metric columns in one row
BulkRow(id, date, ear, load) ==
  [id_subsistema |-> Str(id), din_instante |-> Str(date),
   val_earverif_percentual |-> Str(ear), val_cargaenergiamwmed |-> Str(load)]

FileFour ==
  << BulkRow(S_SE, D_10, V_65c4, <<"3", "8", "2", "4", "5">>),
     BulkRow(S_S, D_10, V_58d2, <<"9", "8", "7", "6">>),
     BulkRow(S_NE, D_10, V_42d8, <<"1", "2", "5", "4", "3">>),
     BulkRow(S_N, D_10, V_71d3, <<"7", "8", "7", "8">>) >>
FileUnrecognized == << BulkRow(S_SE_CO, D_10, V_65d4, <<"1", "0">>) >>
FileInfinite == << BulkRow(S_SE, D_2, V_50d04, V_inf) >>

BulkFiles == {FileFour, FileUnrecognized, FileInfinite}

CsvFixtures ==
  {[k |-> "absent", rows |-> << >>]} \cup {[k |-> "rows", rows |-> f] : f \in BulkFiles \cup {<< >>}}
CsvReplies ==
  {[k |-> "ok", rows |-> f] : f \in BulkFiles \cup {<< >>}}
    \cup {[k |-> e, rows |-> << >>] : e \in {"http_error", "transport_error", "decode_error"}}

F_sudeste == <<"s", "u", "d", "e", "s", "t", "e">>
F_sul == <<"s", "u", "l">>
F_nordeste == <<"n", "o", "r", "d", "e", "s", "t", "e">>
F_norte == <<"n", "o", "r", "t", "e">>
F_data == <<"d", "a", "t", "a">>

\* the input row of the reservoir example
RecordFour ==
  Obj(<< <<F_sudeste, Str(V_65d4)>>, <<F_sul, Str(V_58d2)>>, <<F_nordeste, Str(V_42d8)>>,
         <<F_norte, Str(V_71d3)>>, <<F_data, Str(<<"2", "0", "2", "4">>)>> >>)
RecordNoRegion == Obj(<< <<F_data, Str(<<"2", "0", "2", "4">>)>> >>)
RecordInfinite == Obj(<< <<F_sudeste, Str(V_inf)>> >>)
RecordNotMapping == Str(V_abc)

JsonOk(payload) == [k |-> "json", success |-> TRUE, payload |-> payload]
JsonUnsuccessful == [k |-> "json", success |-> FALSE, payload |-> None]
NoAnswer == [k |-> "error", success |-> FALSE, payload |-> None]

Resource(name, format, id, store) ==
  [t |-> "obj", name |-> name, format |-> format, id |-> id, store |-> store]
Dataset(resources) == [t |-> "obj", resources |-> resources]

N_ear_carga == <<"E", "A", "R", " ", "C", "a", "r", "g", "a">>
N_other == <<"o", "u", "t", "r", "o">>
Fmt_csv == <<"c", "s", "v">>
Fmt_pdf == <<"P", "D", "F">>
Id_r1 == <<"r", "1">>

GoodResource(rec) == Resource(Str(N_ear_carga), Str(Fmt_csv), Str(Id_r1), JsonOk(List(<<rec>>)))

\* the dataset lists a search may return
DatasetSamples ==
  { << Dataset(<<GoodResource(RecordFour)>>) >>,
    << Dataset(<<GoodResource(RecordNoRegion)>>) >>,
    << Dataset(<<GoodResource(RecordInfinite)>>) >>,
    << Dataset(<<GoodResource(RecordNotMapping)>>) >>,
    << Dataset(<< >>),
       Dataset(<< Resource(Str(N_ear_carga), Str(Fmt_pdf), Str(Id_r1), JsonOk(List(<<RecordFour>>))),
                  Resource(Str(N_ear_carga), Str(Fmt_csv), Str(Id_r1), NoAnswer),
                  Resource(Str(N_other), Str(Fmt_csv), Str(Id_r1), JsonOk(List(<<RecordFour>>))),
                  Resource(Str(N_ear_carga), Str(Fmt_csv), Str(Id_r1), JsonUnsuccessful),
                  GoodResource(RecordFour) >>) >>,
    << Dataset(<< Resource(None, Str(Fmt_csv), Str(Id_r1), JsonOk(List(<<RecordFour>>))) >>) >>,
    << Dataset(<< Resource(Str(N_ear_carga), Str(Fmt_csv), Str(Id_r1),
                           JsonOk(List(<<RecordNoRegion, RecordFour>>))) >>),
       Dataset(<< GoodResource(RecordFour) >>) >>,
    << Dataset(<< Resource(Str(N_ear_carga), Str(Fmt_csv), Str(<< >>),
                           JsonOk(List(<<RecordNoRegion>>))),
                  GoodResource(RecordFour),
                  GoodResource(RecordInfinite) >>) >>,
    << Str(V_abc) >> }

SearchAnswers ==
  {JsonOk(List(d)) : d \in DatasetSamples \cup {<< >>}}
    \cup {JsonOk(None), JsonUnsuccessful, NoAnswer}
\* a fixture file that does not exist (or cannot be read)
NoFixture == [k |-> "absent", success |-> FALSE, payload |-> None]
SearchFixtures == (SearchAnswers \ {NoAnswer}) \cup {NoFixture}
DatastoreFixtures ==
  {NoFixture, JsonOk(List(<<RecordFour>>)), JsonOk(List(<<RecordNoRegion>>)),
   JsonOk(List(<< >>))}

\* the fixture directory: ons_<dataset_key>.csv, ons_package_search_<q>.json
\* and ons_datastore_search.json; the files of the two metrics hold the same
\* sample (a sampled row carries the columns of both)
FixtureStore(csv, search, datastore) ==
  [csv |-> csv, search |-> search, datastore |-> datastore]
NoFixtures == FixtureStore([k |-> "absent", rows |-> << >>], NoFixture, NoFixture)
FixtureStores ==
  {FixtureStore(c, q, d) : c \in CsvFixtures, q \in SearchFixtures, d \in DatastoreFixtures}

(***************************************************************************)
(* EnergyDataFetcher: get_reservoir_data and get_grid_consumption          *)
(***************************************************************************)

VARIABLES
  use_fixtures,   \* ONSClient.use_fixtures, set at construction
  pc,             \* position of the request in get_reservoir_data / get_grid_consumption
  metric,         \* "reservoir" (get_reservoir_data) or "consumption" (get_grid_consumption)
  records,        \* the rows the bulk tier obtained last
  datasets,       \* the result of search_datasets
  ons_accessible, \* len(datasets) > 0
  result,         \* the value returned to the caller
  attempts,       \* history: the tiers attempted by this request, with what each yielded
  net_calls,      \* history: network requests issued by this request
  served,         \* history: <<tier, data_source>> of every snapshot returned so far
  fixtures,       \* the contents of the fixture directory (ONS_FIXTURES_PATH)
  offline_results,\* history: <<metric, result>> of the calls answered from fixtures alone
  parked,         \* the local variables of a second request on the same fetcher
  fn,             \* the parser applied to input (parser specification)
  input,          \* the raw rows or records handed to a parser
  output          \* what the parser returned

fetcher_vars ==
  <<use_fixtures, pc, metric, records, datasets, ons_accessible, result, attempts,
    net_calls, served, fixtures, offline_results, parked>>
parser_vars == <<fn, input, output>>
vars == <<fetcher_vars, parser_vars>>

\* datetime.now().isoformat(): an opaque string
Now == Str(<<"n", "o", "w">>)

FallbackReservoirEntry(level_tenths, capacity, status) ==
  [level_percent |-> Fin(level_tenths, 10), capacity_mwmed |-> capacity,
   timestamp |-> Now, status |-> status]

\* the static reservoir snapshot (energy_fetcher.py 69-93)
FallbackReservoir ==
  [t |-> "reservoir",
   regions |-> [r \in RegionSet |->
     CASE r = "southeast" -> FallbackReservoirEntry(654, 208355, "normal")
       [] r = "south" -> FallbackReservoirEntry(582, 19768, "normal")
       [] r = "northeast" -> FallbackReservoirEntry(428, 56468, "attention")
       [] r = "north" -> FallbackReservoirEntry(713, 13489, "normal")]]

\* the static consumption snapshot with the north left out
FallbackConsumption_NoNorth ==
  [t |-> "consumption", current_load_mw |-> 68542, forecast_load_mw |-> 70125,
   timestamp |-> Now,
   regions |-> [r \in RegionSet \ {"north"} |->
     CASE r = "southeast" -> [load_mw |-> Fin(38245, 1), percent |-> Fin(558, 10)]
       [] r = "south" -> [load_mw |-> Fin(9876, 1), percent |-> Fin(144, 10)]
       [] r = "northeast" -> [load_mw |-> Fin(12543, 1), percent |-> Fin(183, 10)]]]

\* the static consumption snapshot (energy_fetcher.py 188-197)
FallbackConsumption ==
  [t |-> "consumption", current_load_mw |-> 68542, forecast_load_mw |-> 70125,
   timestamp |-> Now,
   regions |-> [r \in RegionSet |->
     CASE r = "southeast" -> [load_mw |-> Fin(38245, 1), percent |-> Fin(558, 10)]
       [] r = "south" -> [load_mw |-> Fin(9876, 1), percent |-> Fin(144, 10)]
       [] r = "northeast" -> [load_mw |-> Fin(12543, 1), percent |-> Fin(183, 10)]
       [] r = "north" -> [load_mw |-> Fin(7878, 1), percent |-> Fin(115, 10)]]]

Fallback(m) == IF m = "reservoir" THEN FallbackReservoir ELSE FallbackConsumption

Snapshot(data, data_source, note) ==
  [t |-> "snapshot", data |-> data, data_source |-> data_source, note |-> note]
\* the except branch: {'error': str(e)}
ErrorResult == [t |-> "error", data |-> NoneResult, data_source |-> "", note |-> ""]
NoResult == [t |-> "none", data |-> NoneResult, data_source |-> "", note |-> ""]

\* the bulk result with a note that tells a first answer from a repeated one
S3Result_Repeated(data) ==
  Snapshot(data, "ONS S3",
           IF offline_results = {} THEN "Data retrieved directly from ONS S3 bucket"
           ELSE "Data retrieved from cache")
S3Result(data) == Snapshot(data, "ONS S3", "Data retrieved directly from ONS S3 bucket")
\* the catalog result carrying the tag of the bulk result
ApiResult_BulkTag(data) ==
  Snapshot(data, "ONS S3", "Data successfully retrieved and parsed from ONS")
ApiResult(data) ==
  Snapshot(data, "ONS API", "Data successfully retrieved and parsed from ONS")
\* one note whatever the search found
FallbackNote_Same(accessible) == "ONS API temporarily unavailable"
\* the note of the fallback (energy_fetcher.py 57-66)
FallbackNote(accessible) ==
  IF accessible THEN "ONS API accessible but data format not recognized"
  ELSE "ONS API temporarily unavailable"
FallbackResult(m, accessible) == Snapshot(Fallback(m), "Fallback data", FallbackNote(accessible))

ParseBulk(m, rows) ==
  IF m = "reservoir" THEN _parse_ear_records(rows) ELSE _parse_carga_records(rows)

Attempt(tier, yielded) == [tier |-> tier, yielded |-> yielded]
YieldOf(parsed) ==
  CASE parsed.t = "raise" -> "raise"
    [] parsed.t = "none" -> "nothing"
    [] OTHER -> "result"

\* the handler going on to the catalog although the bulk tier gave a result
AfterParse_NoReturn(parsed) ==
  CASE parsed.t = "raise" -> [pc |-> "done", result |-> ErrorResult, yielded |-> "raise"]
    [] parsed.t = "none" ->
         [pc |-> "catalog_search", result |-> NoResult, yielded |-> "nothing"]
    [] OTHER -> [pc |-> "catalog_search", result |-> S3Result(parsed), yielded |-> "result"]

\* what the parser's answer leads to (energy_fetcher.py 27-36): an exception
\* reaches the handler's except, None goes on to the catalog
AfterParse(parsed) ==
  CASE parsed.t = "raise" -> [pc |-> "done", result |-> ErrorResult, yielded |-> "raise"]
    [] parsed.t = "none" ->
         [pc |-> "catalog_search", result |-> NoResult, yielded |-> "nothing"]
    [] OTHER -> [pc |-> "done", result |-> S3Result(parsed), yielded |-> "result"]

\* what a bulk download leads to: get_*_data_from_s3 parses the rows of the
\* first year that has any; without rows the next step is next_pc
BulkOutcome(m, got, next_pc) ==
  IF NonEmptyList(got)
    THEN AfterParse(ParseBulk(m, got.items))
    ELSE [pc |-> next_pc, result |-> NoResult, yielded |-> "nothing"]

Serve(res, tier) ==
  IF res.t = "snapshot" THEN served \cup {<<tier, res.data_source>>} ELSE served

\* the local variables of a request
Locals(p, m, recs, dsets, accessible, res, tried, net) ==
  [pc |-> p, metric |-> m, records |-> recs, datasets |-> dsets,
   ons_accessible |-> accessible, result |-> res, attempts |-> tried, net_calls |-> net]
NoRequest == Locals("idle", "reservoir", None, List(<< >>), FALSE, NoResult, << >>, 0)

\* the caller invokes get_reservoir_data or get_grid_consumption
Call ==
  /\ pc = "idle"
  /\ \E m \in {"reservoir", "consumption"} : metric' = m
  /\ pc' = "bulk_current"
  /\ records' = None
  /\ datasets' = List(<< >>)
  /\ ons_accessible' = FALSE
  /\ result' = NoResult
  /\ attempts' = << >>
  /\ net_calls' = 0
  /\ UNCHANGED <<parked, use_fixtures, served, fixtures, offline_results, parser_vars>>

\* records = self.get_ear_subsistema() / self.get_carga_energia()
BulkCurrentYear ==
  /\ pc = "bulk_current"
  /\ \E reply \in CsvReplies :
       \E d \in {download_csv_data(use_fixtures, fixtures.csv, reply)} :
         \E o \in {BulkOutcome(metric, d.result, "bulk_previous")} :
           /\ records' = d.result
           /\ net_calls' = net_calls + d.net
           /\ pc' = o.pc
           /\ result' = o.result
           /\ attempts' = Append(attempts, Attempt("bulk_current", o.yielded))
           /\ served' = Serve(o.result, "bulk_current")
  /\ UNCHANGED <<parked, use_fixtures, metric, datasets, ons_accessible, fixtures,
                 offline_results, parser_vars>>

\* records = self.get_ear_subsistema(year=datetime.now().year - 1)
BulkPreviousYear ==
  /\ pc = "bulk_previous"
  /\ \E reply \in CsvReplies :
       \E d \in {download_csv_data(use_fixtures, fixtures.csv, reply)} :
         \E o \in {BulkOutcome(metric, d.result, "catalog_search")} :
           /\ records' = d.result
           /\ net_calls' = net_calls + d.net
           /\ pc' = o.pc
           /\ result' = o.result
           /\ attempts' = Append(attempts, Attempt("bulk_previous", o.yielded))
           /\ served' = Serve(o.result, "bulk_previous")
  /\ UNCHANGED <<parked, use_fixtures, metric, datasets, ons_accessible, fixtures,
                 offline_results, parser_vars>>

\* what the search leads to: len(None) raises TypeError, caught by the
\* handler's except; ons_accessible = len(datasets) > 0
AfterSearch(found) ==
  CASE found.t # "list" -> [pc |-> "done", result |-> ErrorResult, yielded |-> "raise"]
    [] found.t = "list" /\ found.items # << >> ->
         [pc |-> "catalog_parse", result |-> NoResult, yielded |-> "datasets"]
    [] OTHER -> [pc |-> "fallback", result |-> NoResult, yielded |-> "nothing"]

\* datasets = self.ons_client.search_datasets(...); ons_accessible = len(datasets) > 0
CatalogSearch ==
  /\ pc = "catalog_search"
  /\ \E reply \in SearchAnswers :
       \E found \in {search_datasets(use_fixtures, fixtures.search, reply)} :
         \E o \in {AfterSearch(found.result)} :
           /\ datasets' = found.result
           /\ net_calls' = net_calls + found.net
           /\ ons_accessible' = NonEmptyList(found.result)
           /\ pc' = o.pc
           /\ result' = o.result
           /\ attempts' = Append(attempts, Attempt("catalog_search", o.yielded))
  /\ UNCHANGED <<parked, use_fixtures, metric, records, served, fixtures, offline_results,
                 parser_vars>>

\* the handler without its except clause: the exception reaches the caller
AfterCatalogParse_Uncaught(parsed) ==
  CASE parsed.t = "raise" ->
         [pc |-> "done",
          result |-> [t |-> "raised", data |-> NoneResult, data_source |-> "", note |-> ""]]
    [] parsed.t = "none" -> [pc |-> "fallback", result |-> NoResult]
    [] OTHER -> [pc |-> "done", result |-> ApiResult(parsed)]

\* what parse_*_data leads to (energy_fetcher.py 46-54)
AfterCatalogParse(parsed) ==
  CASE parsed.t = "raise" -> [pc |-> "done", result |-> ErrorResult]
    [] parsed.t = "none" -> [pc |-> "fallback", result |-> NoResult]
    [] OTHER -> [pc |-> "done", result |-> ApiResult(parsed)]

\* parsed_data = self.ons_client.parse_reservoir_data(datasets) / parse_consumption_data
CatalogParse ==
  /\ pc = "catalog_parse"
  /\ \E p \in {parse_data(metric, datasets.items, use_fixtures, fixtures.datastore)} :
       \E o \in {AfterCatalogParse(p.result)} :
           /\ net_calls' = net_calls + p.net
           /\ pc' = o.pc
           /\ result' = o.result
           /\ attempts' = Append(attempts, Attempt("catalog_parse", YieldOf(p.result)))
           /\ served' = Serve(o.result, "catalog_parse")
  /\ UNCHANGED <<parked, use_fixtures, metric, records, datasets, ons_accessible, fixtures,
                 offline_results, parser_vars>>

\* the fallback data structure
StaticFallback ==
  /\ pc = "fallback"
  /\ pc' = "done"
  /\ \E o \in {FallbackResult(metric, ons_accessible)} :
       /\ result' = o
       /\ served' = Serve(o, "fallback")
  /\ attempts' = Append(attempts, Attempt("fallback", "result"))
  /\ UNCHANGED <<parked, use_fixtures, metric, records, datasets, ons_accessible, net_calls,
                 fixtures, offline_results, parser_vars>>

\* the handler has returned; the fetcher waits for the next request
Return ==
  /\ pc = "done"
  /\ pc' = "idle"
  /\ offline_results' = IF use_fixtures /\ net_calls = 0
                          THEN offline_results \cup {<<metric, result>>}
                          ELSE offline_results
  /\ UNCHANGED <<parked, use_fixtures, metric, records, datasets, ons_accessible, result,
                 attempts, net_calls, served, fixtures, parser_vars>>

NoParser == [family |-> "none"]

Init ==
  /\ parked = NoRequest
  /\ \/ use_fixtures = FALSE /\ fixtures = NoFixtures
     \/ use_fixtures = TRUE /\ fixtures \in FixtureStores
  /\ pc = "idle"
  /\ metric = "reservoir"
  /\ records = None
  /\ datasets = List(<< >>)
  /\ ons_accessible = FALSE
  /\ result = NoResult
  /\ attempts = << >>
  /\ net_calls = 0
  /\ served = {}
  /\ offline_results = {}
  /\ fn = "none"
  /\ input = NoParser
  /\ output = NoneResult

Next ==
  \/ Call
  \/ BulkCurrentYear
  \/ BulkPreviousYear
  \/ CatalogSearch
  \/ CatalogParse
  \/ StaticFallback
  \/ Return

Spec == Init /\ [][Next]_vars

(***************************************************************************)
(* Two requests interleaved on one fetcher: the local variables of the     *)
(* request that is not running are parked; the component state (the mode,  *)
(* the fixture directory) is the one both requests read                    *)
(***************************************************************************)

\* the search outcome kept on the component: a resumed request finds the
\* flag the other request left
Resume_FlagOnSelf(own, other) == [own EXCEPT !.ons_accessible = other.ons_accessible]

\* what a resumed request finds in its local variables: what it left there
Resume(own, other) == own

\* the scheduler leaves the running request and resumes the other one
Switch ==
  /\ \E mine \in {Locals(pc, metric, records, datasets, ons_accessible, result,
                         attempts, net_calls)} :
       \E r \in {Resume(parked, mine)} :
         /\ parked' = mine
         /\ pc' = r.pc
         /\ metric' = r.metric
         /\ records' = r.records
         /\ datasets' = r.datasets
         /\ ons_accessible' = r.ons_accessible
         /\ result' = r.result
         /\ attempts' = r.attempts
         /\ net_calls' = r.net_calls
  /\ UNCHANGED <<use_fixtures, served, fixtures, offline_results, parser_vars>>

\* a fetcher in network mode
InitTwo == Init /\ ~use_fixtures

NextTwo ==
  \/ Call
  \/ BulkCurrentYear
  \/ BulkPreviousYear
  \/ CatalogSearch
  \/ CatalogParse
  \/ StaticFallback
  \/ Return
  \/ Switch

SpecTwo == InitTwo /\ [][NextTwo]_vars

(***************************************************************************)
(* The parsers on their own: _parse_ear_records, _parse_carga_records,     *)
(* _extract_reservoir_values and _extract_consumption_values applied to    *)
(* bounded families of raw rows and records                                *)
(***************************************************************************)

MaxRows == 2
MaxFields == 3

V_70 == <<"7", "0">>
V_99d96 == <<"9", "9", ".", "9", "6">>
V_150 == <<"1", "5", "0">>

\* rows of a bulk file: the subsystem in several spellings, dates that differ
\* in length, values that parse and one that does not
RowIds == {S_SE, <<"s", "e", " ">>, S_S}
RowDates == {D_2, D_10}
RowValues == {V_50d04, V_70, V_abc}
RowSamples == {BulkRow(id, d, v, v) : id \in RowIds, d \in RowDates, v \in RowValues}

\* the columns a sampled record may carry, each with a value of its own
FieldVocabulary ==
  << <<F_sudeste, Str(V_65d4)>>,
     <<<<"s", "e", "_", "c", "o">>, Str(<<"6", "1">>)>>,
     <<<<"S", "E", "C", "O">>, Str(<<"6", "2">>)>>,
     <<<<" ", "S", "E", " ">>, Str(<<"6", "3">>)>>,
     <<<<"v", "a", "l", "_", "s", "e">>, Str(<<"6", "4">>)>>,
     <<<<"s", "e">>, Str(<<"6", "6">>)>>,
     <<F_sul, Str(V_abc)>>,
     <<<<"s">>, Str(V_58d2)>>,
     <<<<"x", "_", "n", "e">>, NumV(Fin(428, 10))>>,
     <<<<"n">>, None>>,
     <<F_data, Str(<<"2", "0", "2", "4">>)>> >>

\* the values of the four-region inputs
LevelSamples == {V_65d4, V_99d96, V_150, V_abc, V_65c4, <<"0">>}

\* the names a provider may give a region
NameSamples ==
  { S_SE, F_sudeste, <<" ", "s", " ">>, <<"S", "u", "l">>, S_NE, F_nordeste, S_N,
    <<"N", "o", "r", "t", "e">>, S_SE_CO, <<"s", "e", "c", "o">>,
    <<"v", "a", "l", "_", "s", "e">>, <<"x">> }

SeqsUpTo(S, n) == UNION {[1..k -> S] : k \in 0..n}
Injective(f) == \A i, j \in DOMAIN f : f[i] = f[j] => i = j

RowsInput(rows) == [family |-> "rows", rows |-> rows, recs |-> << >>, name |-> << >>]
FieldsInput(picks) ==
  [family |-> "fields", rows |-> << >>,
   recs |-> << Obj([i \in DOMAIN picks |-> FieldVocabulary[picks[i]]]) >>, name |-> << >>]
FourInput(v) ==
  [family |-> "four",
   rows |-> << BulkRow(S_SE, D_10, v["southeast"], v["southeast"]),
               BulkRow(S_S, D_10, v["south"], v["south"]),
               BulkRow(S_NE, D_10, v["northeast"], v["northeast"]),
               BulkRow(S_N, D_10, v["north"], v["north"]) >>,
   recs |-> << Obj(<< <<F_sudeste, Str(v["southeast"])>>, <<F_sul, Str(v["south"])>>,
                      <<F_nordeste, Str(v["northeast"])>>, <<F_norte, Str(v["north"])>> >>) >>,
   name |-> << >>]
NameInput(n) ==
  [family |-> "name", rows |-> << BulkRow(n, D_10, V_70, V_70) >>,
   recs |-> << Obj(<< <<n, Str(V_70)>> >>) >>, name |-> n]

\* a row of the southeast with some of the value columns the bulk parsers
\* try, each absent or holding a raw value
Absent == << >>
PercentCells == {Absent, V_abc, <<"4", "0">>}
SecondPercentCells == {Absent, <<"4", "5">>}
VerifCells == {Absent, V_abc, <<"3", "0">>}
MaxCells == {Absent, V_abc, <<"0">>, <<"-", "5">>, <<"6", "0">>}
LoadCells == {Absent, V_abc}
SecondLoadCells == {Absent, <<"8", "0">>}
ValueColumns ==
  {"val_earverif_percentual", "ear_verif_percentual", "val_earverif_mwmes",
   "val_eararmazenavel_mwmes", "val_cargaenergiamwmed", "val_carga"}
ValueCells ==
  {[val_earverif_percentual |-> p, ear_verif_percentual |-> q, val_earverif_mwmes |-> v,
    val_eararmazenavel_mwmes |-> m, val_cargaenergiamwmed |-> l, val_carga |-> k] :
     p \in PercentCells, q \in SecondPercentCells, v \in VerifCells, m \in MaxCells,
     l \in LoadCells, k \in SecondLoadCells}
ColumnsRow(cells) ==
  [c \in {"id_subsistema", "din_instante"} \cup {c \in ValueColumns : cells[c] # Absent} |->
     IF c = "id_subsistema" THEN Str(S_SE)
     ELSE IF c = "din_instante" THEN Str(D_10)
     ELSE Str(cells[c])]
ColumnsInput(cells) ==
  [family |-> "columns", rows |-> << ColumnsRow(cells) >>, recs |-> << >>, name |-> << >>]

\* a call of parse_reservoir_data / parse_consumption_data: the metric, the
\* dataset list, the mode and the datastore fixture
CatalogInput(m, dsets, use_fx, fixture) ==
  [family |-> "catalog", metric |-> m, dsets |-> dsets, use_fx |-> use_fx,
   fixture |-> fixture]

\* a row that names its subsystem in id_subsistema, in nom_subsistema, in
\* both or in neither; "-" stands for a column the row does not have
NoColumn == <<"-">>
IdCells == {NoColumn, << >>, <<"X", "X">>, S_SE}
NomCells == {NoColumn, <<"S", "U", "D", "E", "S", "T", "E">>, <<"S", "u", "l">>, <<"z", "z">>}
SubsystemRow(id, nom) ==
  [c \in {"din_instante", "val_earverif_percentual", "val_cargaenergiamwmed"}
          \cup (IF id = NoColumn THEN {} ELSE {"id_subsistema"})
          \cup (IF nom = NoColumn THEN {} ELSE {"nom_subsistema"}) |->
     CASE c = "id_subsistema" -> Str(id)
       [] c = "nom_subsistema" -> Str(nom)
       [] c = "din_instante" -> Str(D_10)
       [] OTHER -> Str(V_70)]
SubsystemInput(id, nom) ==
  [family |-> "subsystem", rows |-> << SubsystemRow(id, nom) >>, recs |-> << >>,
   name |-> << >>]

\* a call of search_datasets, get_dataset_info or get_dataset_resource_data:
\* the mode, the fixture file and what the request meets
CatalogCalls == {"search_datasets", "get_dataset_info", "get_dataset_resource_data"}
RequestInput(call, use_fx, fixture, reply) ==
  [family |-> "request", call |-> call, use_fx |-> use_fx, fixture |-> fixture,
   reply |-> reply]

\* a call of download_csv_data: the mode, the fixture file and what the request meets
DownloadInput(use_fx, fixture, reply) ==
  [family |-> "download", use_fx |-> use_fx, fixture |-> fixture, reply |-> reply]

ParserInputs ==
  {RowsInput(rows) : rows \in SeqsUpTo(RowSamples, MaxRows)}
    \cup {DownloadInput(u, f, r) : u \in BOOLEAN, f \in CsvFixtures, r \in CsvReplies}
    \cup {FieldsInput(picks) :
            picks \in {f \in SeqsUpTo(1..Len(FieldVocabulary), MaxFields) : Injective(f)}}
    \cup {FourInput(v) : v \in [RegionSet -> LevelSamples]}
    \cup {NameInput(n) : n \in NameSamples}
    \cup {ColumnsInput(cells) : cells \in ValueCells}
    \cup {SubsystemInput(id, nom) : id \in IdCells, nom \in NomCells}
    \cup {RequestInput(c, FALSE, NoFixture, r) : c \in CatalogCalls, r \in SearchAnswers}
    \cup {RequestInput(c, TRUE, f, NoAnswer) : c \in CatalogCalls, f \in SearchFixtures}
    \cup {CatalogInput(m, d, FALSE, NoFixture) :
            m \in {"reservoir", "consumption"}, d \in DatasetSamples \cup {<< >>}}
    \cup {CatalogInput(m, d, TRUE, f) :
            m \in {"reservoir", "consumption"}, d \in DatasetSamples \cup {<< >>},
            f \in DatastoreFixtures}

HasRows(i) == i.family \in {"rows", "four", "name", "columns", "subsystem"}
HasRecords(i) == i.family \in {"fields", "four", "name"}

ParseEar ==
  /\ fn = "none"
  /\ HasRows(input)
  /\ fn' = "_parse_ear_records"
  /\ output' = _parse_ear_records(input.rows)
  /\ UNCHANGED <<fetcher_vars, input>>

ParseCarga ==
  /\ fn = "none"
  /\ HasRows(input)
  /\ fn' = "_parse_carga_records"
  /\ output' = _parse_carga_records(input.rows)
  /\ UNCHANGED <<fetcher_vars, input>>

ExtractReservoir ==
  /\ fn = "none"
  /\ HasRecords(input)
  /\ fn' = "_extract_reservoir_values"
  /\ output' = _extract_reservoir_values(input.recs)
  /\ UNCHANGED <<fetcher_vars, input>>

ExtractConsumption ==
  /\ fn = "none"
  /\ HasRecords(input)
  /\ fn' = "_extract_consumption_values"
  /\ output' = _extract_consumption_values(input.recs)
  /\ UNCHANGED <<fetcher_vars, input>>

Download ==
  /\ fn = "none"
  /\ input.family = "download"
  /\ fn' = "download_csv_data"
  /\ output' = download_csv_data(input.use_fx, input.fixture, input.reply)
  /\ UNCHANGED <<fetcher_vars, input>>

ParseCatalog ==
  /\ fn = "none"
  /\ input.family = "catalog"
  /\ fn' = "parse_data"
  /\ output' = parse_data(input.metric, input.dsets, input.use_fx, input.fixture)
  /\ UNCHANGED <<fetcher_vars, input>>

CatalogCall ==
  /\ fn = "none"
  /\ input.family = "request"
  /\ fn' = input.call
  /\ output' = CASE input.call = "search_datasets" ->
                     search_datasets(input.use_fx, input.fixture, input.reply)
                  [] input.call = "get_dataset_info" ->
                     get_dataset_info(input.use_fx, input.fixture, input.reply)
                  [] input.call = "get_dataset_resource_data" ->
                     get_dataset_resource_data(input.use_fx, input.fixture, input.reply)
  /\ UNCHANGED <<fetcher_vars, input>>

InitParse ==
  /\ parked = NoRequest
  /\ use_fixtures = FALSE
  /\ pc = "idle"
  /\ metric = "reservoir"
  /\ records = None
  /\ datasets = List(<< >>)
  /\ ons_accessible = FALSE
  /\ result = NoResult
  /\ attempts = << >>
  /\ net_calls = 0
  /\ served = {}
  /\ fixtures = NoFixtures
  /\ offline_results = {}
  /\ fn = "none"
  /\ input \in ParserInputs
  /\ output = NoneResult

NextParse ==
  \/ ParseEar
  \/ ParseCarga
  \/ ExtractReservoir
  \/ ExtractConsumption
  \/ Download
  \/ ParseCatalog
  \/ CatalogCall

SpecParse == InitParse /\ [][NextParse]_vars

(***************************************************************************)
(* Construction of the client: the parameter, the environment, and calls   *)
(* made while the environment changes                                      *)
(***************************************************************************)

Unset == << >>
EnvSamples ==
  {Unset, <<"t", "r", "u", "e">>, <<"T", "R", "U", "E">>, <<"f", "a", "l", "s", "e">>, <<"1">>}
ArgSamples == {"unset", "true", "false"}

\* ONSClient(use_fixtures=arg) under ONS_USE_FIXTURES=environ; "now" is the
\* value the variable has at present
ConstructInput(arg, environ) ==
  [family |-> "construct", arg |-> arg, environ |-> environ, now |-> environ]

\* os.environ["ONS_USE_FIXTURES"] is changed (or deleted) after construction
Setenv ==
  /\ input.family = "construct"
  /\ \E e \in EnvSamples : input' = [input EXCEPT !.now = e]
  /\ UNCHANGED <<fetcher_vars, fn, output>>

\* download_csv_data on the constructed client
ConfiguredDownload ==
  /\ input.family = "construct"
  /\ fn' = "download_csv_data"
  /\ \E reply \in CsvReplies :
       output' = download_csv_data(use_fixtures, fixtures.csv, reply)
  /\ UNCHANGED <<fetcher_vars, input>>

\* search_datasets on the constructed client
ConfiguredSearch ==
  /\ input.family = "construct"
  /\ fn' = "search_datasets"
  /\ \E reply \in {JsonOk(List(<< >>)), NoAnswer} :
       output' = search_datasets(use_fixtures, fixtures.search, reply)
  /\ UNCHANGED <<fetcher_vars, input>>

InitConfig ==
  /\ parked = NoRequest
  /\ input \in {ConstructInput(a, e) : a \in ArgSamples, e \in EnvSamples}
  /\ use_fixtures = __init__(input.arg, input.environ)
  /\ fixtures \in {FixtureStore(c, NoFixture, NoFixture) : c \in CsvFixtures}
  /\ pc = "idle"
  /\ metric = "reservoir"
  /\ records = None
  /\ datasets = List(<< >>)
  /\ ons_accessible = FALSE
  /\ result = NoResult
  /\ attempts = << >>
  /\ net_calls = 0
  /\ served = {}
  /\ offline_results = {}
  /\ fn = "none"
  /\ output = NoneResult

NextConfig ==
  \/ Setenv
  \/ ConfiguredDownload
  \/ ConfiguredSearch

SpecConfig == InitConfig /\ [][NextConfig]_vars

(***************************************************************************)
(* Properties of the tier chain (checked under Spec)                       *)
(***************************************************************************)

TierOrder ==
  <<"bulk_current", "bulk_previous", "catalog_search", "catalog_parse", "fallback">>
TierIndex(tier) == CHOOSE i \in 1..Len(TierOrder) : TierOrder[i] = tier
Returned == pc = "done"
ReturnedSnapshot == pc = "done" /\ result.t = "snapshot"

\* C1: every call of get_reservoir_data / get_grid_consumption ends with a
\* usable snapshot; no tier outcome leads to an error outcome
C1_AlwaysSnapshot == Returned => result.t = "snapshot"

\* C2: the tiers are attempted in the fixed order, each at most once, a tier
\* only after every earlier attempt yielded nothing, and none after a result
C2_TiersInOrder ==
  /\ \A i, j \in 1..Len(attempts) :
       i < j => /\ TierIndex(attempts[i].tier) < TierIndex(attempts[j].tier)
                /\ attempts[i].yielded \in {"nothing", "datasets"}
  /\ ReturnedSnapshot => attempts[Len(attempts)].yielded = "result"
  /\ pc \notin {"idle", "done"} => result.t = "none"

\* all five tiers attempted in one call
C2_Witness ==
  /\ Returned
  /\ [i \in 1..Len(attempts) |-> attempts[i].tier] = TierOrder

\* the bulk tier and the catalog tier returned empty
BulkAndCatalogEmpty ==
  \A i \in 1..Len(attempts) :
    attempts[i].tier # "fallback" => attempts[i].yielded \in {"nothing", "datasets"}

ReferenceData(data, m) ==
  IF m = "reservoir"
    THEN /\ data.t = "reservoir"
         /\ \A r \in RegionSet : data.regions[r].capacity_mwmed = capacities(r)
    ELSE /\ data.t = "consumption"
         /\ FSum([r \in RegionSet |-> data.regions[r].load_mw], RegionSet)
              = Fin(data.current_load_mw, 1)

\* C3: when the bulk tier and the catalog tier return empty, the result has
\* data_source 'Fallback data' and all four regions from the reference
\* constants, for the reservoir and the consumption snapshot alike
C3_FallbackComplete ==
  Returned /\ BulkAndCatalogEmpty =>
    /\ result.t = "snapshot"
    /\ result.data_source = "Fallback data"
    /\ DOMAIN result.data.regions = RegionSet
    /\ ReferenceData(result.data, metric)
    /\ result.data = Fallback(metric)

\* the consumption fallback after a search that found nothing
C3_Witness ==
  /\ Returned /\ BulkAndCatalogEmpty
  /\ metric = "consumption"
  /\ result.data_source = "Fallback data"
  /\ Len(attempts) = 4

\* C4 as stated: the tag identifies the tier, with distinct tags for the bulk
\* current-year tier, the bulk previous-year tier, the catalog tier and the
\* static fallback
C4_TagPerTier == \A p, q \in served : p[2] = q[2] => p[1] = q[1]

SourceOf(tier) == IF tier \in {"bulk_current", "bulk_previous"} THEN "bulk" ELSE tier

\* C4 amended: the tag identifies the source (bulk file of either year,
\* catalog, static fallback): two results carry the same tag exactly when
\* they come from the same source
C4_TagPerSource ==
  /\ \A p, q \in served : (p[2] = q[2]) <=> (SourceOf(p[1]) = SourceOf(q[1]))
  /\ ReturnedSnapshot => <<attempts[Len(attempts)].tier, result.data_source>> \in served

\* results of all four tiers have been returned
C4_Witness == {p[1] : p \in served} =
  {"bulk_current", "bulk_previous", "catalog_parse", "fallback"}

SearchFound(what) ==
  \E i \in 1..Len(attempts) :
    attempts[i].tier = "catalog_search" /\ attempts[i].yielded = what

\* C5: a fallback after a search that found zero datasets carries another
\* note than a fallback after datasets from which nothing could be extracted;
\* both have data_source 'Fallback data'
C5_FallbackNotes ==
  Returned /\ BulkAndCatalogEmpty =>
    /\ result.data_source = "Fallback data"
    /\ SearchFound("nothing") => result.note = "ONS API temporarily unavailable"
    /\ SearchFound("datasets") =>
         result.note = "ONS API accessible but data format not recognized"
    /\ SearchFound("nothing") \/ SearchFound("datasets")

\* a fallback after datasets that held no values
C5_Witness ==
  /\ Returned /\ BulkAndCatalogEmpty
  /\ SearchFound("datasets")
  /\ result.note = "ONS API accessible but data format not recognized"

\* C10: in every reservoir snapshot of any tier, a region's status is
\* 'normal' exactly when its reported level_percent is greater than 50
C10_StatusMatchesLevel ==
  ReturnedSnapshot /\ result.data.t = "reservoir" =>
    \A r \in DOMAIN result.data.regions :
      (result.data.regions[r].status = "normal")
        <=> FGtInt(result.data.regions[r].level_percent, 50)

(***************************************************************************)
(* Properties of the parsers (checked under SpecParse)                     *)
(***************************************************************************)

OutRegions(o) == IF o.t \in {"reservoir", "consumption"} THEN DOMAIN o.regions ELSE {}

\* the rows of a region, and the one with the greatest date (the later row
\* among those of that date)
RowsOf(rows, r) == {i \in 1..Len(rows) : region_key(rows[i]) = r}
IsGreatest(rows, S, i, is_ear) ==
  \A j \in S : \/ StrLess(row_date(rows[j], is_ear), row_date(rows[i], is_ear))
               \/ row_date(rows[j], is_ear) = row_date(rows[i], is_ear) /\ j <= i
GreatestRow(rows, r, is_ear) ==
  rows[CHOOSE i \in RowsOf(rows, r) : IsGreatest(rows, RowsOf(rows, r), i, is_ear)]

EarEntryFrom(entry, row, pct) ==
  /\ pct.k # "fail"
  /\ entry.timestamp = Str(ear_date(row))
  /\ entry.level_percent = round1(pct)
CargaEntryFrom(entry, row, load) ==
  /\ load.k # "fail"
  /\ entry.load_mw = load

EarFromGreatest(o, rows, r) ==
  IF RowsOf(rows, r) = {} THEN r \notin OutRegions(o)
  ELSE IF ear_percent(GreatestRow(rows, r, TRUE)).k = "fail" THEN r \notin OutRegions(o)
  ELSE /\ r \in OutRegions(o)
       /\ EarEntryFrom(o.regions[r], GreatestRow(rows, r, TRUE),
                       ear_percent(GreatestRow(rows, r, TRUE)))
CargaFromGreatest(o, rows, r) ==
  IF RowsOf(rows, r) = {} THEN r \notin OutRegions(o)
  ELSE IF carga_load(GreatestRow(rows, r, FALSE)).k = "fail" THEN r \notin OutRegions(o)
  ELSE /\ r \in OutRegions(o)
       /\ CargaEntryFrom(o.regions[r], GreatestRow(rows, r, FALSE),
                         carga_load(GreatestRow(rows, r, FALSE)))

\* C6: _parse_ear_records and _parse_carga_records yield at most one entry
\* per canonical region, taken from the row of the region with the
\* lexicographically greatest timestamp (the later row when timestamps are
\* equal); a region with no rows is absent
C6_LatestRowWins ==
  /\ fn = "_parse_ear_records" =>
       /\ OutRegions(output) \subseteq RegionSet
       /\ \A r \in RegionSet : EarFromGreatest(output, input.rows, r)
  /\ fn = "_parse_carga_records" /\ output.t # "raise" =>
       /\ OutRegions(output) \subseteq RegionSet
       /\ \A r \in RegionSet : CargaFromGreatest(output, input.rows, r)

\* two rows of one region: the second has the smaller number as its date but
\* the lexicographically greater string, and is the one reported
C6_Witness ==
  /\ fn = "_parse_ear_records"
  /\ input.rows = <<BulkRow(S_SE, D_10, V_70, V_70), BulkRow(S_SE, D_2, V_50d04, V_50d04)>>
  /\ output.t = "reservoir"
  /\ output.regions["southeast"].timestamp = Str(D_2)
  /\ output.regions["southeast"].level_percent = Fin(50, 1)

\* the aliases of a region a field matches, by index, and the field the
\* claim chooses: smallest alias index, then first in the record
AliasHits(field_name, region_names) ==
  {p \in 1..Len(region_names) : FieldMatches(strip(lower(field_name)), region_names[p])}
Candidates(rec, r) ==
  {i \in 1..Len(rec.items) : AliasHits(rec.items[i][1], region_mappings(r)) # {}}
FirstAlias(rec, r, i) == FirstOf(AliasHits(rec.items[i][1], region_mappings(r)))
IsChosen(rec, r, S, i) ==
  \A j \in S : \/ FirstAlias(rec, r, i) < FirstAlias(rec, r, j)
               \/ FirstAlias(rec, r, i) = FirstAlias(rec, r, j) /\ i <= j
ChosenField(rec, r) ==
  rec.items[CHOOSE i \in Candidates(rec, r) : IsChosen(rec, r, Candidates(rec, r), i)]

Reverse(seq) == [i \in 1..Len(seq) |-> seq[Len(seq) + 1 - i]]
DistinctAliases(rec, r) ==
  \A i, j \in Candidates(rec, r) : i # j => FirstAlias(rec, r, i) # FirstAlias(rec, r, j)

ValueOf(o, r) ==
  IF o.t = "reservoir" THEN o.regions[r].level_percent ELSE o.regions[r].load_mw

ColumnChosen(o, rec, r) ==
  IF Candidates(rec, r) = {} THEN r \notin OutRegions(o)
  ELSE /\ best_match(rec, r).name = ChosenField(rec, r)[1]
       /\ IF ToFloat(ChosenField(rec, r)[2]).k = "fail" THEN r \notin OutRegions(o)
          ELSE r \in OutRegions(o) /\ ValueOf(o, r) = ToFloat(ChosenField(rec, r)[2])
       /\ DistinctAliases(rec, r) =>
            best_match(Obj(Reverse(rec.items)), r).name = ChosenField(rec, r)[1]

\* C7: the column chosen for a region matches the alias of smallest index in
\* the region's alias list; among fields of that alias the first is chosen;
\* between columns of different aliases the order of the columns is irrelevant
C7_BestAliasFirstField ==
  fn \in {"_extract_reservoir_values", "_extract_consumption_values"}
    /\ input.family = "fields" =>
      \A r \in RegionSet : ColumnChosen(output, input.recs[1], r)

\* 'se' comes first in the record, 'se_co' has the earlier alias and is chosen
C7_Witness ==
  /\ fn = "_extract_reservoir_values"
  /\ input.family = "fields"
  /\ Keys(input.recs[1]) = << <<"s", "e">>, <<"s", "e", "_", "c", "o">> >>
  /\ output.t = "reservoir"
  /\ output.regions["southeast"].level_percent = Fin(61, 1)

BulkParsers == {"_parse_ear_records", "_parse_carga_records"}
CatalogExtractors == {"_extract_reservoir_values", "_extract_consumption_values"}

\* C8 as stated: a name is accepted for a region by the catalog resolver
\* exactly when the bulk grouping maps it to that region, for both metrics
C8_SameRule ==
  input.family = "name" =>
    /\ fn \in BulkParsers =>
         OutRegions(output) = OutRegions(_extract_reservoir_values(input.recs))
    /\ fn \in CatalogExtractors =>
         OutRegions(output) = OutRegions(_parse_ear_records(input.rows))

\* C8 amended: every name the bulk grouping maps to a region is accepted for
\* that region by the catalog resolver, for both metrics; the converse does
\* not hold
C8_BulkNamesAccepted ==
  input.family = "name" =>
    /\ fn \in BulkParsers =>
         OutRegions(output) \subseteq OutRegions(_extract_reservoir_values(input.recs))
    /\ fn \in CatalogExtractors =>
         OutRegions(_parse_ear_records(input.rows)) \subseteq OutRegions(output)
    /\ fn = "_parse_ear_records" =>
         OutRegions(output) = OutRegions(_parse_carga_records(input.rows))
    /\ fn = "_extract_reservoir_values" =>
         OutRegions(output) = OutRegions(_extract_consumption_values(input.recs))

\* the one-letter name of the south, padded, grouped by the bulk path
C8_Witness ==
  /\ input.family = "name"
  /\ input.name = <<" ", "s", " ">>
  /\ fn = "_parse_carga_records"
  /\ OutRegions(output) = {"south"}

\* C9: an input with columns or rows for all four regions gives exactly four
\* entries, each level_percent strictly between 0 and 100
C9_FourInRange ==
  input.family = "four" /\ fn \in {"_parse_ear_records", "_extract_reservoir_values"} =>
    /\ OutRegions(output) = RegionSet
    /\ \A r \in RegionSet : /\ FGtInt(output.regions[r].level_percent, 0)
                            /\ FLtInt(output.regions[r].level_percent, 100)

ConsumptionParsers == {"_parse_carga_records", "_extract_consumption_values"}
LoadsOf(o) == [r \in DOMAIN o.regions |-> o.regions[r].load_mw]
PercentsOf(o) == [r \in DOMAIN o.regions |-> o.regions[r].percent]
TotalLoad(o) == FSum(LoadsOf(o), DOMAIN o.regions)
PercentSum(o) == FSum(PercentsOf(o), DOMAIN o.regions)
Resolved(o) == o.t = "consumption" /\ FGtInt(TotalLoad(o), 0)

\* |x| <= 1/n for a finite x
WithinOneNth(x, n) == x.k = "fin" /\ n * Abs(x.num) <= x.den
\* p has one decimal and is nearest to load / total * 100
IsShare(p, load, total) ==
  /\ p.k = "fin"
  /\ 10 % p.den = 0
  /\ WithinOneNth(FAdd(p, FNeg(FDivTimes100(load, total))), 20)

SharesOf(o, total) ==
  /\ \A r \in DOMAIN o.regions : IsShare(o.regions[r].percent, o.regions[r].load_mw, total)
  /\ WithinOneNth(FAdd(PercentSum(o), Fin(-100, 1)), 1)

\* C11: in a consumption resolution with total load greater than 0, each
\* region's percent is load / total load * 100 rounded to one decimal, and the
\* percents add up to 100 within 1
C11_LoadShares ==
  fn \in ConsumptionParsers /\ Resolved(output) => SharesOf(output, TotalLoad(output))

\* four regions whose rounded shares do not add up to exactly 100
C11_Witness ==
  /\ fn = "_parse_carga_records"
  /\ Resolved(output)
  /\ DOMAIN output.regions = RegionSet
  /\ PercentSum(output) # Fin(100, 1)

\* c is the integer nearest to n / d (d > 0)
IsNearest(c, n, d) == 2 * Abs(c * d - n) <= d
\* c is n / d cut off toward zero (n >= 0, d > 0)
IsTruncated(c, n, d) == c * d <= n /\ n < (c + 1) * d

RoundedTotals(o, total) ==
  /\ IsNearest(o.current_load_mw, total.num, total.den)
  /\ IsNearest(o.forecast_load_mw, 103 * total.num, 100 * total.den)
TruncatedTotals(o, total) ==
  /\ IsTruncated(o.current_load_mw, total.num, total.den)
  /\ IsTruncated(o.forecast_load_mw, 103 * total.num, 100 * total.den)

\* C12 as stated: current_load_mw is the sum of the region loads rounded to
\* the nearest integer and forecast_load_mw is round(total * 1.03)
C12_RoundedTotals ==
  fn \in ConsumptionParsers /\ Resolved(output) =>
    RoundedTotals(output, TotalLoad(output))

\* C12 amended: with a total load greater than 0, current_load_mw is the sum
\* of the region loads cut off toward zero and forecast_load_mw is
\* total * 1.03 cut off toward zero; otherwise both stay 0
C12_TruncatedTotals ==
  fn \in ConsumptionParsers /\ output.t = "consumption" =>
    IF Resolved(output) THEN TruncatedTotals(output, TotalLoad(output))
    ELSE output.current_load_mw = 0 /\ output.forecast_load_mw = 0

\* a total of 99.96 reported as 99
C12_Witness ==
  /\ fn = "_extract_consumption_values"
  /\ Resolved(output)
  /\ TotalLoad(output) = Fin(9996, 100)
  /\ output.current_load_mw = 99
  /\ output.forecast_load_mw = 102

(***************************************************************************)
(* Properties of fixture mode and of the transport                         *)
(***************************************************************************)

Attempted(tier) == \E i \in 1..Len(attempts) : attempts[i].tier = tier

\* C13: with use_fixtures set, download_csv_data issues no network request:
\* it returns the records of the matching fixture, or none without one
C13_FixtureModeOffline ==
  use_fixtures =>
    /\ net_calls = 0
    /\ IF fixtures.csv.k = "rows" THEN records \in {None, List(fixtures.csv.rows)}
       ELSE records = None

\* C14: with use_fixtures set, a catalog call without a matching fixture
\* raises 'Fixture not found' to its caller; the call does not degrade to an
\* empty result or to the static fallback
C14_MissingFixtureRaises ==
  use_fixtures /\ Returned /\ Attempted("catalog_search") /\ fixtures.search.k = "absent" =>
    result.t = "error"

\* what a request may meet that is not a body with data rows
FailedReply(reply) == reply.k # "ok" \/ reply.rows = << >>

\* C15: in network mode download_csv_data never raises: a transport error,
\* an HTTP error status, an undecodable or unparsable body and a body with no
\* data rows each yield none
C15_DownloadNeverRaises ==
  fn = "download_csv_data" /\ ~input.use_fx =>
    /\ output.result.t \in {"null", "list"}
    /\ FailedReply(input.reply) => output.result = None
    /\ ~FailedReply(input.reply) => output.result = List(input.reply.rows)

\* a body that cannot be decoded, in network mode
C15_Witness ==
  /\ fn = "download_csv_data"
  /\ ~input.use_fx
  /\ input.reply.k = "decode_error"
  /\ output.result = None
  /\ output.net = 1

\* the parser named f applied to an input
ApplyParser(f, i) ==
  CASE f = "_parse_ear_records" -> _parse_ear_records(i.rows)
    [] f = "_parse_carga_records" -> _parse_carga_records(i.rows)
    [] f = "_extract_reservoir_values" -> _extract_reservoir_values(i.recs)
    [] f = "_extract_consumption_values" -> _extract_consumption_values(i.recs)

\* the raw value each region has in a four-region input, and the same input
\* with every value written in its dot form
FourOrder == <<"southeast", "south", "northeast", "north">>
RawOf(i, r) == i.rows[CHOOSE k \in 1..4 : FourOrder[k] = r].val_earverif_percentual.s
DotForm(i) == FourInput([r \in RegionSet |-> replace_comma(RawOf(i, r))])

\* C16: in each of the four parsing paths a value written with a comma as
\* decimal separator is parsed to the same number as its dot form: the
\* output for an input equals the output for its dot form
C16_CommaAsDot ==
  fn \in BulkParsers \cup CatalogExtractors /\ input.family = "four" =>
    output = ApplyParser(fn, DotForm(input))

\* the columns the bulk parsers try for a value, in order
PercentColumns == <<"val_earverif_percentual", "ear_verif_percentual", "val_ear_percentual">>
LoadColumns == <<"val_cargaenergiamwmed", "val_carga", "carga">>
SomeColumnParses(record, cols) ==
  \E i \in 1..Len(cols) : CellFloat(record, cols[i]).k # "fail"
\* a candidate column of the region in a catalog record holds a parseable value
SomeCandidateParses(rec, r) ==
  \E i \in Candidates(rec, r) : ToFloat(rec.items[i][2]).k # "fail"

\* C17: a value that fails to parse raises nothing and the next candidate
\* column of the region is tried: a region with a candidate column holding a
\* parseable value is in the result, in the bulk paths and the catalog paths
C17_NextCandidateTried ==
  /\ fn \in BulkParsers \cup CatalogExtractors => output.t # "raise"
  /\ fn = "_parse_ear_records" /\ input.family = "columns"
       /\ SomeColumnParses(input.rows[1], PercentColumns) =>
         "southeast" \in OutRegions(output)
  /\ fn = "_parse_carga_records" /\ input.family = "columns"
       /\ SomeColumnParses(input.rows[1], LoadColumns) =>
         "southeast" \in OutRegions(output)
  /\ fn \in CatalogExtractors /\ input.family = "fields" =>
       \A r \in RegionSet :
         SomeCandidateParses(input.recs[1], r) => r \in OutRegions(output)

\* the level a row gets from its verified and maximum energy: verified / max
\* x 100 to one decimal when both parse and max > 0, else no entry
DerivedLevel(o, ear_verif, ear_max) ==
  IF ear_verif.k = "fin" /\ ear_max.k = "fin" /\ ear_max.num > 0
    THEN /\ "southeast" \in OutRegions(o)
         /\ o.regions["southeast"].level_percent
              = Fin(RoundHalfEven(ear_verif.num * ear_max.den * 1000,
                                  ear_verif.den * ear_max.num), 10)
    ELSE "southeast" \notin OutRegions(o)

\* C18: when no percentage column of a row parses, _parse_ear_records derives
\* the level as verified / max x 100 only when both values parse and max > 0;
\* when max is 0, negative or missing the region is omitted
C18_DerivedOnlyWithPositiveMax ==
  fn = "_parse_ear_records" /\ input.family = "columns"
    /\ ~SomeColumnParses(input.rows[1], PercentColumns) =>
      DerivedLevel(output, CellFloat(input.rows[1], "val_earverif_mwmes"),
                   CellFloat(input.rows[1], "val_eararmazenavel_mwmes"))

\* verified 30 with max 0 and no percentage: the southeast is omitted
C18_Witness ==
  /\ fn = "_parse_ear_records"
  /\ input.family = "columns"
  /\ ~SomeColumnParses(input.rows[1], PercentColumns)
  /\ CellFloat(input.rows[1], "val_earverif_mwmes") = Fin(30, 1)
  /\ CellFloat(input.rows[1], "val_eararmazenavel_mwmes") = Fin(0, 1)
  /\ output = NoneResult

\* a resource the scan considers: format CSV or JSON and a name containing
\* a keyword of the metric
Considered(resource, m) ==
  /\ resource.t = "obj"
  /\ resource.name.t = "str"
  /\ resource.format.t = "str"
  /\ upper(resource.format.s) \in {<<"C", "S", "V">>, <<"J", "S", "O", "N">>}
  /\ \E keyword \in Keywords(m) : contains(lower(resource.name.s), keyword)

\* the records sampled from a resource in the call i
SampleOf(i, resource) ==
  IF Truthy(resource.id)
    THEN get_dataset_resource_data(i.use_fx, i.fixture, resource.store).result
    ELSE None

\* the considered resources that return at least one record, in scan order
Deciders(i, resources) ==
  {k \in 1..Len(resources) :
     Considered(resources[k], i.metric) /\ NonEmptyList(SampleOf(i, resources[k]))}

\* the result of the record at index 0 of the first of them, none without one
FromFirstRecord(i, resources, D) ==
  IF D = {} THEN NoneResult
  ELSE Extract(i.metric, << SampleOf(i, resources[FirstOf(D)]).items[1] >>)

\* C19: parse_reservoir_data / parse_consumption_data scan the datasets and
\* their resources in order; the first considered resource that returns a
\* record decides, the result comes from its record at index 0 alone, and the
\* result is none for an empty dataset list or when no resource qualifies
C19_FirstResourceFirstRecord ==
  fn = "parse_data" =>
    output.result = FromFirstRecord(input, Flatten(input.dsets),
                                    Deciders(input, Flatten(input.dsets)))

\* a snapshot without its timestamp fields
StripData(data) ==
  CASE data.t = "reservoir" ->
         [t |-> "reservoir",
          regions |-> [r \in DOMAIN data.regions |->
                         [level_percent |-> data.regions[r].level_percent,
                          capacity_mwmed |-> data.regions[r].capacity_mwmed,
                          status |-> data.regions[r].status]]]
    [] data.t = "consumption" ->
         [t |-> "consumption", current_load_mw |-> data.current_load_mw,
          forecast_load_mw |-> data.forecast_load_mw, regions |-> data.regions]
    [] OTHER -> data
StripTime(res) ==
  [t |-> res.t, data |-> StripData(res.data), data_source |-> res.data_source,
   note |-> res.note]

\* a call answered from the fixtures alone has returned
OfflineReturned == Returned /\ use_fixtures /\ net_calls = 0

EnvelopeOf(i) == IF i.use_fx THEN i.fixture ELSE i.reply
Succeeded(env) == env.k = "json" /\ env.success
EmptyAnswer(call) == IF call = "search_datasets" THEN List(<< >>) ELSE None

\* C21: search_datasets, get_dataset_info and get_dataset_resource_data never
\* raise: an envelope with success true gives the envelope's result, success
\* false or a failed request gives the empty list (search) or none
C21_CatalogCallsNeverRaise ==
  fn \in CatalogCalls =>
    /\ output.result.t # "raise"
    /\ output.result = IF Succeeded(EnvelopeOf(input)) THEN EnvelopeOf(input).payload
                       ELSE EmptyAnswer(input.call)

\* a request that fails, in network mode, and a search answered by the empty list
C21_Witness ==
  /\ fn = "search_datasets"
  /\ ~input.use_fx
  /\ input.reply = NoAnswer
  /\ output.result = List(<< >>)

\* C22: fixture mode is off by default, is switched on by the constructor
\* parameter or by ONS_USE_FIXTURES=true, an explicit parameter wins over the
\* environment, and the mode is the one fixed at construction whatever the
\* environment becomes afterwards: the calls of the client follow it
C22_ModeFixedAtConstruction ==
  input.family = "construct" =>
    /\ input.arg = "true" => use_fixtures
    /\ input.arg = "false" => ~use_fixtures
    /\ input.arg = "unset" /\ input.environ = Unset => ~use_fixtures
    /\ input.arg = "unset" /\ input.environ = <<"t", "r", "u", "e">> => use_fixtures
    /\ input.arg = "unset" /\ input.environ \in {<<"f", "a", "l", "s", "e">>, <<"1">>} =>
         ~use_fixtures
    /\ fn = "search_datasets" => output.net = IF use_fixtures THEN 0 ELSE 1
    /\ fn = "download_csv_data" /\ ~use_fixtures => output.net = 1
    /\ fn = "download_csv_data" /\ use_fixtures /\ fixtures.csv.k = "rows" => output.net = 0

\* a client built with use_fixtures=False while the environment said true
\* answers from the network; the environment was changed after construction
C22_Witness ==
  /\ input.family = "construct"
  /\ input.arg = "false"
  /\ input.environ = <<"t", "r", "u", "e">>
  /\ input.now = Unset
  /\ fn = "search_datasets"
  /\ output.net = 1

\* what a request returns when it runs alone, from the upstream responses it
\* received: the rows of the bulk tier, the datasets of the search, and what
\* each tier yielded
FoundDatasets(tried) ==
  \E i \in 1..Len(tried) : tried[i].tier = "catalog_search" /\ tried[i].yielded = "datasets"
AloneResult(m, last, tried, recs, dsets) ==
  CASE last.yielded = "raise" -> ErrorResult
    [] last.tier \in {"bulk_current", "bulk_previous"} -> S3Result(ParseBulk(m, recs.items))
    [] last.tier = "catalog_parse" ->
         ApiResult(parse_data(m, dsets.items, use_fixtures, fixtures.datastore).result)
    [] last.tier = "fallback" -> FallbackResult(m, FoundDatasets(tried))
ReturnsAsAlone(l) ==
  l.pc = "done" =>
    l.result = AloneResult(l.metric, l.attempts[Len(l.attempts)], l.attempts, l.records,
                           l.datasets)

\* C23: no operation writes the component state after construction, and of
\* two requests interleaved in any order on one fetcher each returns what it
\* returns when run alone on the upstream responses it received
C23_InterleavedAsAlone ==
  /\ ~use_fixtures /\ fixtures = NoFixtures
  /\ ReturnsAsAlone(Locals(pc, metric, records, datasets, ons_accessible, result,
                           attempts, net_calls))
  /\ ReturnsAsAlone(parked)

\* a request that found datasets ends in the fallback while the other
\* request, whose search found nothing, is between two tiers
C23_Witness ==
  /\ pc = "done"
  /\ result.data_source = "Fallback data"
  /\ FoundDatasets(attempts)
  /\ parked.pc = "fallback"
  /\ ~parked.ons_accessible
  /\ parked.metric # metric

\* the network tiers a request attempted: every tier but the static fallback
NetworkTiersAttempted ==
  {i \in 1..Len(attempts) : attempts[i].tier # "fallback"}

\* C24: a request issues at most one network call per network tier it
\* attempts (bulk current year, bulk previous year, catalog search, resource
\* sampling), whatever the catalog returns
C24_OneCallPerTier == net_calls <= Cardinality(NetworkTiersAttempted)

\* C25: whenever the current-year bulk file yields no metric set, for lack
\* of rows or for rows without a recognizable region or value, the
\* previous-year file is tried before the chain moves on to the catalog
C25_PreviousYearBeforeCatalog ==
  /\ Attempted("catalog_search") => Attempted("bulk_previous")
  /\ pc \in {"catalog_search", "catalog_parse", "fallback"} => Attempted("bulk_previous")

\* C26: in every result of every tier each region key is one of southeast,
\* south, northeast, north: no subsystem identifier or column name of the
\* upstream data creates another bucket
C26_ClosedRegionSet ==
  /\ fn \in BulkParsers \cup CatalogExtractors => OutRegions(output) \subseteq RegionSet
  /\ fn = "parse_data" => OutRegions(output.result) \subseteq RegionSet
  /\ \A m \in {"reservoir", "consumption"} : DOMAIN Fallback(m).regions \subseteq RegionSet

\* a row of the unknown subsystem 'SE_CO' with a parseable value gives no entry
C26_Witness ==
  /\ fn \in BulkParsers
  /\ input.family = "name"
  /\ input.name = S_SE_CO
  /\ OutRegions(output) = {}

\* the outcome of the request's last tier
LastYield == attempts[Len(attempts)].yielded

\* C27: get_reservoir_data and get_grid_consumption never raise: a call
\* returns a snapshot with data_source and note, or the dict whose only key
\* is 'error'; an exception inside the catalog-parse step gives the latter
C27_SnapshotOrErrorDict ==
  Returned =>
    /\ result.t \in {"snapshot", "error"}
    /\ result.t = "snapshot" =>
         /\ result.data.t = metric
         /\ result.data_source # ""
         /\ result.note # ""
    /\ result.t = "error" => result = ErrorResult
    /\ LastYield = "raise" => result.t = "error"

\* the catalog-parse step raised and the caller got the error dict
C27_Witness ==
  /\ Returned
  /\ attempts[Len(attempts)] = Attempt("catalog_parse", "raise")
  /\ result = ErrorResult

\* the columns a bulk parser reads the metric value from
MetricColumns(f) == IF f = "_parse_ear_records" THEN PercentColumns ELSE LoadColumns

\* some row of the region carries a parseable metric value
SomeRowParses(rows, r, cols) ==
  \E i \in RowsOf(rows, r) : SomeColumnParses(rows[i], cols)

\* C28: a bulk parser reports a region whenever at least one row of the
\* region carries a parseable metric value, also when the most recent row of
\* the region has an empty or unparseable value
C28_RegionKeptByAnyRow ==
  fn \in BulkParsers /\ input.family = "rows" =>
    \A r \in RegionSet :
      SomeRowParses(input.rows, r, MetricColumns(fn)) => r \in OutRegions(output)

\* the timestamps of the rows selected for the regions a result reports
SelectedDates(o, rows) ==
  {carga_date(GreatestRow(rows, r, FALSE)) : r \in OutRegions(o)}

\* C29: the top-level timestamp of a bulk consumption snapshot is the
\* greatest timestamp among the rows selected for the regions it reports, in
\* whatever order the regions first appear in the rows
C29_GreatestTimestamp ==
  fn = "_parse_carga_records" /\ input.family = "rows" /\ output.t = "consumption" =>
    /\ output.timestamp.s \in SelectedDates(output, input.rows)
    /\ \A d \in SelectedDates(output, input.rows) : StrGE(output.timestamp.s, d)

\* the region a column of a row names, "" when the column is missing or
\* names none
RegionNamedBy(record, col) ==
  IF col \in DOMAIN record THEN subsystem_mapping(strip(upper(record[col].s))) ELSE ""

\* the region of the row by the claim: the one id_subsistema names, else the
\* one nom_subsistema names
AttributedTo(by_id, by_nom) == IF by_id # "" THEN by_id ELSE by_nom

\* C30: a bulk row is attributed to a region whenever its id_subsistema or
\* its nom_subsistema names that region; an id_subsistema that is not empty
\* and not recognized does not drop a row whose nom_subsistema is recognized
C30_IdOrNameAttributes ==
  fn \in BulkParsers /\ input.family = "subsystem" =>
    \E r \in {AttributedTo(RegionNamedBy(input.rows[1], "id_subsistema"),
                           RegionNamedBy(input.rows[1], "nom_subsistema"))} :
      OutRegions(output) = IF r = "" THEN {} ELSE {r}

====
